---- MODULE Spec2Model ----
(***************************************************************************)
(* A model of the JSON toolchain of mayson-editor: the template-aware      *)
(* formatter (src/lib/json/formatter.ts), the worker dispatcher with its   *)
(* in-process fallbacks (src/hooks/useWorker.ts) and the schema validator  *)
(* (src/lib/json/validator.ts).                                            *)
(*                                                                         *)
(* A text is a sequence of characters.  A character is a one-character     *)
(* string; the word __TEMPLATE_n__ that extractTemplates generates is kept *)
(* as one symbol of PlaceholderWidth characters.                           *)
(***************************************************************************)
EXTENDS Integers, Sequences, FiniteSets, TLC

\* ------------------------------------------------------------------------
\* Text primitives
\* ------------------------------------------------------------------------

QUOTE == "\""
BSLASH == "\\"
NL == "\n"
TAB == "\t"

DigitChars == <<"0", "1", "2", "3", "4", "5", "6", "7", "8", "9">>

IsDigit(c) == \E d \in 1..10 : DigitChars[d] = c

DigitVal(c) == (CHOOSE d \in 1..10 : DigitChars[d] = c) - 1

\* The placeholder words __TEMPLATE_${placeholderIndex}__, by index + 1.
PlaceholderWords ==
  <<"__TEMPLATE_0__", "__TEMPLATE_1__", "__TEMPLATE_2__", "__TEMPLATE_3__",
    "__TEMPLATE_4__", "__TEMPLATE_5__", "__TEMPLATE_6__", "__TEMPLATE_7__">>

IsPlaceholderWord(c) == \E n \in 1..Len(PlaceholderWords) : PlaceholderWords[n] = c

\* The number of characters of __TEMPLATE_n__ for a one-digit n.
PlaceholderWidth == 14

CharWidth(c) == IF IsPlaceholderWord(c) THEN PlaceholderWidth ELSE 1

\* String.prototype.length of a text.
RECURSIVE StrLength(_)
StrLength(t) == IF t = <<>> THEN 0 ELSE CharWidth(Head(t)) + StrLength(Tail(t))

\* t.startsWith(p, i) with a one-based i.
StartsAt(t, i, p) ==
  /\ i >= 1
  /\ i + Len(p) - 1 <= Len(t)
  /\ \A k \in 1..Len(p) : t[i + k - 1] = p[k]

Includes(t, p) == \E i \in 1..(Len(t) + 1) : StartsAt(t, i, p)

From(t, i) == SubSeq(t, i, Len(t))

\* Array.prototype.join
RECURSIVE Join(_, _)
Join(parts, sep) ==
  IF parts = <<>> THEN <<>>
  ELSE IF Len(parts) = 1 THEN parts[1]
  ELSE parts[1] \o sep \o Join(Tail(parts), sep)

\* String.prototype.repeat
RECURSIVE Repeat(_, _)
Repeat(s, n) == IF n <= 0 THEN <<>> ELSE s \o Repeat(s, n - 1)

Min(a, b) == IF a <= b THEN a ELSE b

\* ------------------------------------------------------------------------
\* JsonValue, as JSON.parse builds it
\* ------------------------------------------------------------------------

JNull == [t |-> "null", n |-> 0, s |-> <<>>, items |-> <<>>]
JBool(b) == [t |-> IF b THEN "true" ELSE "false", n |-> 0, s |-> <<>>, items |-> <<>>]
JNum(n) == [t |-> "num", n |-> n, s |-> <<>>, items |-> <<>>]
JStr(s) == [t |-> "str", n |-> 0, s |-> s, items |-> <<>>]
JArr(items) == [t |-> "arr", n |-> 0, s |-> <<>>, items |-> items]
\* An object is the sequence of its own properties [k, v] in the order
\* Object.keys enumerates them.
JObj(members) == [t |-> "obj", n |-> 0, s |-> <<>>, items |-> members]

RECURSIVE DigitsVal(_, _)
DigitsVal(ds, acc) ==
  IF ds = <<>> THEN acc ELSE DigitsVal(Tail(ds), acc * 10 + DigitVal(Head(ds)))

\* The largest array index of ECMAScript, 2^32 - 2, as its decimal digits.
MaxArrayIndexDigits == <<"4", "2", "9", "4", "9", "6", "7", "2", "9", "4">>

\* a < b for two canonical decimal numerals: by length, then digit by digit.
RECURSIVE DigitsLess(_, _)
DigitsLess(a, b) ==
  IF Len(a) # Len(b) THEN Len(a) < Len(b)
  ELSE IF a = <<>> THEN FALSE
  ELSE IF Head(a) # Head(b) THEN DigitVal(Head(a)) < DigitVal(Head(b))
  ELSE DigitsLess(Tail(a), Tail(b))

\* A property key that is an array index: a canonical numeric string.
IsArrayIndex(k) ==
  /\ Len(k) >= 1
  /\ \A i \in 1..Len(k) : IsDigit(k[i])
  /\ (Len(k) > 1 => k[1] # "0")
  /\ ~DigitsLess(MaxArrayIndexDigits, k)

\* obj[k] = v on an ordinary object: an existing property keeps its place, an
\* array-index key goes before the string keys in ascending numeric order, any
\* other new key goes last.
RECURSIVE InsertIndexKey(_, _)
InsertIndexKey(members, m) ==
  IF members = <<>> THEN <<m>>
  ELSE IF IsArrayIndex(Head(members).k) /\ DigitsLess(Head(members).k, m.k)
       THEN <<Head(members)>> \o InsertIndexKey(Tail(members), m)
       ELSE <<m>> \o members

ObjPut(members, k, v) ==
  IF \E i \in 1..Len(members) : members[i].k = k
  THEN [i \in 1..Len(members) |->
          IF members[i].k = k THEN [k |-> k, v |-> v] ELSE members[i]]
  ELSE IF IsArrayIndex(k) THEN InsertIndexKey(members, [k |-> k, v |-> v])
  ELSE Append(members, [k |-> k, v |-> v])

\* ------------------------------------------------------------------------
\* JSON.parse
\* ------------------------------------------------------------------------

IsWs(c) == c \in {" ", NL, TAB}

RECURSIVE SkipWs(_, _)
SkipWs(t, i) == IF i <= Len(t) /\ IsWs(t[i]) THEN SkipWs(t, i + 1) ELSE i

\* The line of a position of a text.
LineAt(t, p) == 1 + Cardinality({j \in 1..(p - 1) : t[j] = NL})

\* The least and the greatest of a set of numbers that is not empty.
FirstOf(S) == CHOOSE i \in S : \A j \in S : i <= j
LastOf(S) == CHOOSE i \in S : \A j \in S : j <= i

NoParse == [ok |-> FALSE, val |-> JNull, pos |-> 0]
Parsed(v, p) == [ok |-> TRUE, val |-> v, pos |-> p]

\* The body of a string literal from position i (after the opening quote):
\* escapes are decoded, a raw control character is a syntax error.
RECURSIVE ParseStringBody(_, _, _)
ParseStringBody(t, i, acc) ==
  IF i > Len(t) THEN NoParse
  ELSE IF t[i] = QUOTE THEN Parsed(JStr(acc), i + 1)
  ELSE IF t[i] \in {NL, TAB} THEN NoParse
  ELSE IF t[i] = BSLASH THEN
    IF i + 1 > Len(t) THEN NoParse
    ELSE IF t[i + 1] \in {QUOTE, BSLASH, "/"}
      THEN ParseStringBody(t, i + 2, Append(acc, t[i + 1]))
    ELSE IF t[i + 1] = "n" THEN ParseStringBody(t, i + 2, Append(acc, NL))
    ELSE IF t[i + 1] = "t" THEN ParseStringBody(t, i + 2, Append(acc, TAB))
    ELSE NoParse
  ELSE ParseStringBody(t, i + 1, Append(acc, t[i]))

RECURSIVE DigitRunEnd(_, _)
DigitRunEnd(t, i) == IF i <= Len(t) /\ IsDigit(t[i]) THEN DigitRunEnd(t, i + 1) ELSE i

\* An integer literal: -? (0 | [1-9][0-9]*), its digits from s to e - 1.
NumberFrom(t, neg, s, e) ==
  IF e = s THEN NoParse
  ELSE IF e - s > 1 /\ t[s] = "0" THEN NoParse
  ELSE Parsed(JNum(IF neg THEN 0 - DigitsVal(SubSeq(t, s, e - 1), 0)
                   ELSE DigitsVal(SubSeq(t, s, e - 1), 0)), e)

DigitsFrom(t, neg, s) == NumberFrom(t, neg, s, DigitRunEnd(t, s))

ParseNumber(t, i) == DigitsFrom(t, t[i] = "-", IF t[i] = "-" THEN i + 1 ELSE i)

RECURSIVE ParseValue(_, _)
RECURSIVE ParseElements(_, _, _)
RECURSIVE ParseMembers(_, _, _)

\* An array or an object whose first token after the bracket is at j.
ContainerAt(t, j, isArr) ==
  IF j <= Len(t) /\ t[j] = (IF isArr THEN "]" ELSE "}")
  THEN Parsed(IF isArr THEN JArr(<<>>) ELSE JObj(<<>>), j + 1)
  ELSE IF isArr THEN ParseElements(t, j, <<>>) ELSE ParseMembers(t, j, <<>>)

ValueAt(t, i) ==
  IF i > Len(t) THEN NoParse
  ELSE IF t[i] \in {"{", "["} THEN ContainerAt(t, SkipWs(t, i + 1), t[i] = "[")
  ELSE IF t[i] = QUOTE THEN ParseStringBody(t, i + 1, <<>>)
  ELSE IF t[i] = "-" \/ IsDigit(t[i]) THEN ParseNumber(t, i)
  ELSE IF StartsAt(t, i, <<"t", "r", "u", "e">>) THEN Parsed(JBool(TRUE), i + 4)
  ELSE IF StartsAt(t, i, <<"f", "a", "l", "s", "e">>) THEN Parsed(JBool(FALSE), i + 5)
  ELSE IF StartsAt(t, i, <<"n", "u", "l", "l">>) THEN Parsed(JNull, i + 4)
  ELSE NoParse

ParseValue(t, i0) == ValueAt(t, SkipWs(t, i0))

\* The elements of an array after the element r, the next token at j.
ElementsAfter(t, acc, r, j) ==
  IF ~r.ok \/ j > Len(t) THEN NoParse
  ELSE IF t[j] = "]" THEN Parsed(JArr(Append(acc, r.val)), j + 1)
  ELSE IF t[j] = "," THEN ParseElements(t, j + 1, Append(acc, r.val))
  ELSE NoParse

ElementParsed(t, acc, r) == ElementsAfter(t, acc, r, SkipWs(t, r.pos))

ParseElements(t, i, acc) == ElementParsed(t, acc, ParseValue(t, i))

\* The members of an object after the member k: r, the next token at j.
MembersAfter(t, acc, k, r, j) ==
  IF ~r.ok \/ j > Len(t) THEN NoParse
  ELSE IF t[j] = "}" THEN Parsed(JObj(Append(acc, [k |-> k, v |-> r.val])), j + 1)
  ELSE IF t[j] = "," THEN ParseMembers(t, j + 1, Append(acc, [k |-> k, v |-> r.val]))
  ELSE NoParse

MemberParsed(t, acc, k, r) == MembersAfter(t, acc, k, r, SkipWs(t, r.pos))

ColonAt(t, acc, key, c) ==
  IF key.ok /\ c <= Len(t) /\ t[c] = ":"
  THEN MemberParsed(t, acc, key.val.s, ParseValue(t, c + 1))
  ELSE NoParse

KeyParsed(t, acc, key) == ColonAt(t, acc, key, SkipWs(t, key.pos))

KeyAt(t, i, acc) ==
  IF i <= Len(t) /\ t[i] = QUOTE
  THEN KeyParsed(t, acc, ParseStringBody(t, i + 1, <<>>))
  ELSE NoParse

ParseMembers(t, i0, acc) == KeyAt(t, SkipWs(t, i0), acc)

WholeText(t, r) == IF r.ok /\ SkipWs(t, r.pos) > Len(t) THEN r ELSE NoParse

\* The JSON text grammar: the syntax tree of a text, the members of every
\* object in the order they are written, or ok = FALSE for a SyntaxError.
ParseTree(t) == WholeText(t, ParseValue(t, 1))

RECURSIVE PutAll(_, _)
PutAll(acc, members) ==
  IF members = <<>> THEN acc
  ELSE PutAll(ObjPut(acc, Head(members).k, Head(members).v), Tail(members))

\* The value JSON.parse builds from a syntax tree: the members of an object
\* are defined on it one after the other.
RECURSIVE BuildValue(_)
BuildValue(v) ==
  IF v.t = "arr" THEN JArr([i \in 1..Len(v.items) |-> BuildValue(v.items[i])])
  ELSE IF v.t = "obj" THEN
    JObj(PutAll(<<>>, [i \in 1..Len(v.items) |->
                         [k |-> v.items[i].k, v |-> BuildValue(v.items[i].v)]]))
  ELSE v

Built(r) == IF r.ok THEN Parsed(BuildValue(r.val), r.pos) ELSE NoParse

\* JSON.parse(text): [ok |-> TRUE, val] or [ok |-> FALSE] for a SyntaxError.
JsonParse(t) == Built(ParseTree(t))

\* ------------------------------------------------------------------------
\* JSON.stringify
\* ------------------------------------------------------------------------

RECURSIVE NatDigits(_)
NatDigits(n) ==
  IF n < 10 THEN <<DigitChars[n + 1]>>
  ELSE NatDigits(n \div 10) \o <<DigitChars[(n % 10) + 1]>>

NumberToString(n) == IF n < 0 THEN <<"-">> \o NatDigits(0 - n) ELSE NatDigits(n)

\* QuoteJSONString
RECURSIVE EscapeChars(_)
EscapeChars(s) ==
  IF s = <<>> THEN <<>>
  ELSE (IF Head(s) \in {QUOTE, BSLASH} THEN <<BSLASH, Head(s)>>
        ELSE IF Head(s) = NL THEN <<BSLASH, "n">>
        ELSE IF Head(s) = TAB THEN <<BSLASH, "t">>
        ELSE <<Head(s)>>) \o EscapeChars(Tail(s))

QuoteString(s) == <<QUOTE>> \o EscapeChars(s) \o <<QUOTE>>

\* SerializeJSONProperty with the gap string gap at indentation indent.
RECURSIVE Serialize(_, _, _)
Serialize(v, gap, indent) ==
  IF v.t = "null" THEN <<"n", "u", "l", "l">>
  ELSE IF v.t = "true" THEN <<"t", "r", "u", "e">>
  ELSE IF v.t = "false" THEN <<"f", "a", "l", "s", "e">>
  ELSE IF v.t = "num" THEN NumberToString(v.n)
  ELSE IF v.t = "str" THEN QuoteString(v.s)
  ELSE IF v.items = <<>> THEN (IF v.t = "arr" THEN <<"[", "]">> ELSE <<"{", "}">>)
  ELSE
    (IF v.t = "arr" THEN <<"[">> ELSE <<"{">>)
    \o (IF gap = <<>> THEN <<>> ELSE <<NL>> \o indent \o gap)
    \o Join([i \in 1..Len(v.items) |->
               IF v.t = "arr" THEN Serialize(v.items[i], gap, indent \o gap)
               ELSE QuoteString(v.items[i].k) \o <<":">>
                    \o (IF gap = <<>> THEN <<>> ELSE <<" ">>)
                    \o Serialize(v.items[i].v, gap, indent \o gap)],
            IF gap = <<>> THEN <<",">> ELSE <<",", NL>> \o indent \o gap)
    \o (IF gap = <<>> THEN <<>> ELSE <<NL>> \o indent)
    \o (IF v.t = "arr" THEN <<"]">> ELSE <<"}">>)

\* JSON.stringify(value, null, space) for a string space: the gap is its
\* first ten characters.
JsonStringify(v, space) == Serialize(v, SubSeq(space, 1, Min(10, Len(space))), <<>>)

\* ------------------------------------------------------------------------
\* Template preservation (formatter.ts)
\* ------------------------------------------------------------------------

\* The five regular expressions of TEMPLATE_PATTERNS.  Each is an opening
\* word, a run of characters and a closing word; the run excludes the
\* character forbid ("" when any character may occur, the run then being
\* lazy) and has at least min characters.  The \s* of the source patterns
\* are absorbed by the negated classes next to them.
TEMPLATE_PATTERNS ==
  << [open |-> <<"{", "{">>, close |-> <<"}", "}">>, forbid |-> "}", min |-> 1],
     [open |-> <<"{", "%">>, close |-> <<"%", "}">>, forbid |-> "%", min |-> 1],
     [open |-> <<"{", "#">>, close |-> <<"#", "}">>, forbid |-> "#", min |-> 0],
     [open |-> <<"{", "{", "!", "-", "-">>, close |-> <<"-", "-", "}", "}">>,
      forbid |-> "", min |-> 0],
     [open |-> <<"{", "{", "!">>, close |-> <<"}", "}">>, forbid |-> "}", min |-> 0] >>

\* new RegExp of "(pattern.source)": the pattern between two double quotes.
QuotedPattern(p) ==
  [p EXCEPT !.open = <<QUOTE>> \o p.open, !.close = p.close \o <<QUOTE>>]

\* The least of a set of positions plus n, or 0 for the empty set.
LeastPlus(ends, n) ==
  IF ends = {} THEN 0 ELSE (CHOOSE j \in ends : \A j2 \in ends : j <= j2) + n

\* The position after the match of pattern p that starts at i, or 0.
MatchEnd(t, i, p) ==
  IF ~StartsAt(t, i, p.open) THEN 0
  ELSE LeastPlus({j \in (i + Len(p.open) + p.min)..(Len(t) + 1) :
                    /\ StartsAt(t, j, p.close)
                    /\ \A k \in (i + Len(p.open))..(j - 1) : t[k] # p.forbid},
                 Len(p.close))

\* regex.test(input)
PatternTest(t, p) == \E i \in 1..Len(t) : MatchEnd(t, i, p) # 0

hasTemplateSyntax(input) ==
  \E n \in 1..Len(TEMPLATE_PATTERNS) : PatternTest(input, TEMPLATE_PATTERNS[n])

QuotedPlaceholder(index) == <<QUOTE, PlaceholderWords[index + 1], QUOTE>>

\* processed.replace(regex, callback) of extractTemplates with a global
\* regex: every match from the left, none overlapping, becomes the next
\* quoted placeholder and is recorded with its original text.
RECURSIVE ReplaceTemplates(_, _, _, _, _)
ReplaceMatch(t, i, p, out, found, e) ==
  IF e = 0 THEN ReplaceTemplates(t, i + 1, p, Append(out, t[i]), found)
  ELSE ReplaceTemplates(t, e, p,
         out \o QuotedPlaceholder(Len(found)),
         Append(found, [placeholder |-> QuotedPlaceholder(Len(found)),
                        original |-> SubSeq(t, i, e - 1)]))

ReplaceTemplates(t, i, p, out, found) ==
  IF i > Len(t) THEN [processed |-> out, placeholders |-> found]
  ELSE ReplaceMatch(t, i, p, out, found, MatchEnd(t, i, p))

\* One pattern of the loop: replace(..., callback) on what came before.
ReplaceIn(ex, p) == ReplaceTemplates(ex.processed, 1, p, <<>>, ex.placeholders)

\* The loop of extractTemplates over TEMPLATE_PATTERNS from pattern n on:
\* the quoted form of a pattern first, then the bare form.
RECURSIVE ExtractFrom(_, _)
ExtractFrom(n, ex) ==
  IF n > Len(TEMPLATE_PATTERNS) THEN ex
  ELSE ExtractFrom(n + 1,
         ReplaceIn(ReplaceIn(ex, QuotedPattern(TEMPLATE_PATTERNS[n])),
                   TEMPLATE_PATTERNS[n]))

extractTemplates(input) ==
  ExtractFrom(1, [processed |-> input, placeholders |-> <<>>])

\* GetSubstitution for a replacement string and a regex without capture
\* groups: $$ is a dollar and $& the match; a dollar before any other
\* character of the alphabet stands for itself (the back-quote and the
\* apostrophe, whose patterns insert the text around the match, are not in it).
RECURSIVE GetSubstitution(_, _)
GetSubstitution(rep, matched) ==
  IF rep = <<>> THEN <<>>
  ELSE IF Head(rep) = "$" /\ Len(rep) >= 2 /\ rep[2] \in {"$", "&"}
    THEN (IF rep[2] = "$" THEN <<"$">> ELSE matched)
         \o GetSubstitution(Tail(Tail(rep)), matched)
  ELSE <<Head(rep)>> \o GetSubstitution(Tail(rep), matched)

\* result.replace(new RegExp(placeholder, 'g'), original)
RECURSIVE ReplaceAll(_, _, _, _)
ReplaceAll(t, i, pat, rep) ==
  IF i > Len(t) THEN <<>>
  ELSE IF StartsAt(t, i, pat)
    THEN GetSubstitution(rep, pat)
         \o ReplaceAll(t, i + Len(pat), pat, rep)
  ELSE <<t[i]>> \o ReplaceAll(t, i + 1, pat, rep)

\* The loop of restoreTemplates from index i down to 1.
RECURSIVE RestoreFrom(_, _, _)
RestoreFrom(i, result, placeholders) ==
  IF i < 1 THEN result
  ELSE RestoreFrom(i - 1,
         ReplaceAll(result, 1, placeholders[i].placeholder, placeholders[i].original),
         placeholders)

restoreTemplates(processed, placeholders) ==
  RestoreFrom(Len(placeholders), processed, placeholders)

\* ------------------------------------------------------------------------
\* Repair Engine (src/lib/json/repair.ts is not part of the sources; this is
\* the contract of spec section 4.2)
\* ------------------------------------------------------------------------

\* Two of the fixups: a comma before a closing bracket is dropped, and the
\* closers of brackets left open at the end of the text are appended.
RECURSIVE RepairScan(_, _, _, _, _)
RepairScan(t, i, inString, open, out) ==
  IF i > Len(t) THEN
    IF inString THEN out \o <<QUOTE>> \o open ELSE out \o open
  ELSE IF inString THEN
    IF t[i] = BSLASH /\ i < Len(t)
    THEN RepairScan(t, i + 2, TRUE, open, out \o <<t[i], t[i + 1]>>)
    ELSE RepairScan(t, i + 1, t[i] # QUOTE, open, Append(out, t[i]))
  ELSE IF t[i] = QUOTE THEN RepairScan(t, i + 1, TRUE, open, Append(out, t[i]))
  ELSE IF t[i] = "{" THEN RepairScan(t, i + 1, FALSE, <<"}">> \o open, Append(out, t[i]))
  ELSE IF t[i] = "[" THEN RepairScan(t, i + 1, FALSE, <<"]">> \o open, Append(out, t[i]))
  ELSE IF t[i] \in {"}", "]"} THEN
    RepairScan(t, i + 1, FALSE, IF open = <<>> THEN open ELSE Tail(open), Append(out, t[i]))
  ELSE IF t[i] = "," /\ (LET j == SkipWs(t, i + 1)
                         IN j > Len(t) \/ t[j] \in {"}", "]"}) THEN
    RepairScan(t, i + 1, FALSE, open, out)
  ELSE RepairScan(t, i + 1, FALSE, open, Append(out, t[i]))

Repaired(input, inputOk, fixed, fixedOk) ==
  IF inputOk THEN [output |-> input, error |-> FALSE, wasRepaired |-> FALSE]
  ELSE IF fixedOk THEN [output |-> fixed, error |-> FALSE, wasRepaired |-> TRUE]
  ELSE [output |-> input, error |-> TRUE, wasRepaired |-> FALSE]

IsValidJson(t) == JsonParse(t).ok

RepairWith(input, fixed) == Repaired(input, IsValidJson(input), fixed, IsValidJson(fixed))

\* repairJson(input): a text that already parses is returned as it is; a
\* text the fixups make parse is returned repaired; otherwise the engine
\* could only have quoted the whole input, which it reports as an error.
repairJson(input) == RepairWith(input, RepairScan(input, 1, FALSE, <<>>, <<>>))

\* ------------------------------------------------------------------------
\* Formatter operations (formatter.ts)
\* ------------------------------------------------------------------------

\* indent === 'tab' ? '\t' : ' '.repeat(indent)
IndentStr(indent) ==
  IF indent.kind = "tab" THEN <<TAB>> ELSE Repeat(<<" ">>, indent.n)

\* The outcome of a call: a text returned, or an exception thrown.
Return(text) == [threw |-> FALSE, text |-> text]
Throw == [threw |-> TRUE, text |-> <<>>]

\* The prologue shared by the four operations: templates are extracted when
\* preservation is enabled and the input has template syntax.
ExtractIfEnabled(input, preserveTemplates) ==
  IF preserveTemplates /\ hasTemplateSyntax(input)
  THEN extractTemplates(input)
  ELSE [processed |-> input, placeholders |-> <<>>]

\* "Restore templates if they were extracted"
RestoreIfExtracted(text, preserveTemplates, placeholders) ==
  IF preserveTemplates /\ Len(placeholders) > 0
  THEN restoreTemplates(text, placeholders)
  ELSE text

\* The prologue and JSON.parse(processedInput) of the try block.
ParseExtracted(ex) == [parsed |-> JsonParse(ex.processed), placeholders |-> ex.placeholders]

TryParse(input, preserveTemplates) ==
  ParseExtracted(ExtractIfEnabled(input, preserveTemplates))

\* The try block of formatJson: the formatted text, or ok = FALSE when
\* JSON.parse throws.
FormatParsed(p, opts) ==
  IF ~p.parsed.ok THEN [ok |-> FALSE, text |-> <<>>]
  ELSE [ok |-> TRUE,
        text |-> RestoreIfExtracted(JsonStringify(p.parsed.val, IndentStr(opts.indent)),
                                    opts.preserveTemplates, p.placeholders)]

FormatTry(input, opts) == FormatParsed(TryParse(input, opts.preserveTemplates), opts)

\* The test of the parsed repair that lets a quoted input pass as a repair.
QuotedInputAccepted(parsed, input) == FALSE

\* typeof parsed === 'string' && parsed === input
QuotedInput(parsed, input) == parsed.ok /\ parsed.val.t = "str" /\ parsed.val.s = input

\* repairJson(input, { preserveTemplates }) in the catch block and the test
\* of its result: useful when it reports no error and did not merely quote
\* the input.
RepairChecked(repaired, input) ==
  [useful |-> ~repaired.error /\ ~QuotedInput(JsonParse(repaired.output), input),
   output |-> repaired.output]

RepairAttempt(input) == RepairChecked(repairJson(input), input)

\* The engine gave up and made one JSON string literal of the whole input
\* ("converts it to '"not json"'", formatter.ts:185-187) without reporting
\* an error.
QuotedWhole(input) ==
  [output |-> QuoteString(input), error |-> FALSE, wasRepaired |-> FALSE]

\* What repairJson may hand to the catch block: where the engine could fix
\* nothing, either the error of its guard or the quoted input.
OrQuoted(repaired, input) ==
  IF repaired.error THEN {repaired, QuotedWhole(input)} ELSE {repaired}

RepairOutcomes(input) == OrQuoted(repairJson(input), input)

\* The retry that passes the options on unchanged.
RetryAutoRepairKept(autoRepair) == autoRepair

\* { ...options, autoRepair: false }
RetryAutoRepair(autoRepair) == FALSE

\* formatJson(input, options) as a value: the try block, else the retry on
\* the repaired text, whose own catch block returns that text, else the input.
RetryResult(tried, text) == IF tried.ok THEN tried.text ELSE text

RepairResult(attempt, input, options) ==
  IF attempt.useful
  THEN RetryResult(FormatTry(attempt.output,
                             [options EXCEPT !.autoRepair = RetryAutoRepair(@)]),
                   attempt.output)
  ELSE input

FormatResult(tried, input, options) ==
  IF tried.ok THEN tried.text
  ELSE IF options.autoRepair THEN RepairResult(RepairAttempt(input), input, options)
  ELSE input

formatJson(input, options) == FormatResult(FormatTry(input, options), input, options)

\* The try block of compactJson without its catch clause.
CompactParsedUncaught(p, input, opts) ==
  IF ~p.parsed.ok THEN Throw
  ELSE Return(RestoreIfExtracted(JsonStringify(p.parsed.val, <<>>),
                                 opts.preserveTemplates, p.placeholders))

\* The try block of compactJson and its catch clause.
CompactParsed(p, input, opts) ==
  IF ~p.parsed.ok THEN Return(input)
  ELSE Return(RestoreIfExtracted(JsonStringify(p.parsed.val, <<>>),
                                 opts.preserveTemplates, p.placeholders))

compactJson(input, opts) ==
  CompactParsed(TryParse(input, opts.preserveTemplates), input, opts)

\* The inline test without the length limit.
InlineFitsAnyLength(inline, maxLineLength) == ~Includes(inline, <<NL>>)

\* inline.length <= maxLineLength && !inline.includes('\n')
InlineFits(inline, maxLineLength) ==
  StrLength(inline) <= maxLineLength /\ ~Includes(inline, <<NL>>)

\* The array or object with the rendered parts: inline when that fits,
\* else one part a line.
SmartChoice(isArr, parts, inline, indentStr, maxLineLength, depth) ==
  IF InlineFits(inline, maxLineLength) THEN inline
  ELSE (IF isArr THEN <<"[">> ELSE <<"{">>) \o <<NL>>
       \o Join([i \in 1..Len(parts) |-> Repeat(indentStr, depth + 1) \o parts[i]],
               <<",", NL>>)
       \o <<NL>> \o Repeat(indentStr, depth)
       \o (IF isArr THEN <<"]">> ELSE <<"}">>)

SmartParts(isArr, parts, indentStr, maxLineLength, depth) ==
  SmartChoice(isArr, parts,
              IF isArr THEN <<"[">> \o Join(parts, <<",", " ">>) \o <<"]">>
              ELSE <<"{", " ">> \o Join(parts, <<",", " ">>) \o <<" ", "}">>,
              indentStr, maxLineLength, depth)

RECURSIVE smartStringify(_, _, _, _)
smartStringify(value, indentStr, maxLineLength, depth) ==
  IF value.t = "null" THEN <<"n", "u", "l", "l">>
  ELSE IF value.t = "true" THEN <<"t", "r", "u", "e">>
  ELSE IF value.t = "false" THEN <<"f", "a", "l", "s", "e">>
  ELSE IF value.t = "num" THEN NumberToString(value.n)
  ELSE IF value.t = "str" THEN QuoteString(value.s)
  ELSE IF value.items = <<>> THEN
    (IF value.t = "arr" THEN <<"[", "]">> ELSE <<"{", "}">>)
  ELSE
    SmartParts(value.t = "arr",
               [i \in 1..Len(value.items) |->
                  IF value.t = "arr"
                  THEN smartStringify(value.items[i], indentStr, maxLineLength, depth + 1)
                  ELSE QuoteString(value.items[i].k) \o <<":", " ">>
                       \o smartStringify(value.items[i].v, indentStr,
                                         maxLineLength, depth + 1)],
               indentStr, maxLineLength, depth)

SmartParsed(p, input, opts) ==
  IF ~p.parsed.ok THEN Return(input)
  ELSE Return(RestoreIfExtracted(
         smartStringify(p.parsed.val, IndentStr(opts.indent), opts.maxLineLength, 0),
         opts.preserveTemplates, p.placeholders))

smartFormatJson(input, opts) ==
  SmartParsed(TryParse(input, opts.preserveTemplates), input, opts)

\* The characters of the alphabet in UTF-16 code unit order; a placeholder
\* word stands where its first character, the underscore, does.
CodeOrder ==
  <<TAB, NL, " ", "!", QUOTE, "#", "$", "%", "&", ",", "-", "/">>
  \o DigitChars \o <<":", "B", "[", BSLASH, "]">> \o PlaceholderWords
  \o <<"a", "b", "c", "e", "f", "l", "n", "r", "s", "t", "u", "x", "{", "}">>

CharCode(c) == CHOOSE i \in 1..Len(CodeOrder) : CodeOrder[i] = c

\* a < b in the default order of Array.prototype.sort: by code units.
RECURSIVE StringLess(_, _)
StringLess(a, b) ==
  IF b = <<>> THEN FALSE
  ELSE IF a = <<>> THEN TRUE
  ELSE IF Head(a) # Head(b) THEN CharCode(Head(a)) < CharCode(Head(b))
  ELSE StringLess(Tail(a), Tail(b))

\* Object.keys(value).sort(), then sorted[key] = sortKeysDeep(value[key]) for
\* each key in that order.
RECURSIVE InsertSorted(_, _)
InsertSorted(sortedMembers, m) ==
  IF sortedMembers = <<>> THEN <<m>>
  ELSE IF StringLess(m.k, Head(sortedMembers).k) THEN <<m>> \o sortedMembers
  ELSE <<Head(sortedMembers)>> \o InsertSorted(Tail(sortedMembers), m)

RECURSIVE SortMembers(_)
SortMembers(members) ==
  IF members = <<>> THEN <<>>
  ELSE InsertSorted(SortMembers(Tail(members)), Head(members))

\* value.map without keeping the elements in their positions.
ElementAtReversed(items, i) == items[Len(items) + 1 - i]

\* value.map(f): the element at index i of the result is f of the element
\* at index i.
ElementAt(items, i) == items[i]

RECURSIVE sortKeysDeep(_)
SortedObject(keys) ==
  JObj(PutAll(<<>>, [i \in 1..Len(keys) |->
                       [k |-> keys[i].k, v |-> sortKeysDeep(keys[i].v)]]))

sortKeysDeep(value) ==
  IF value.t = "arr" THEN
    JArr([i \in 1..Len(value.items) |-> sortKeysDeep(ElementAt(value.items, i))])
  ELSE IF value.t = "obj" THEN SortedObject(SortMembers(value.items))
  ELSE value

SortParsed(p, input, opts) ==
  IF ~p.parsed.ok THEN Return(input)
  ELSE Return(RestoreIfExtracted(
         JsonStringify(sortKeysDeep(p.parsed.val), IndentStr(opts.indent)),
         opts.preserveTemplates, p.placeholders))

sortJsonKeys(input, opts) ==
  SortParsed(TryParse(input, opts.preserveTemplates), input, opts)

\* ------------------------------------------------------------------------
\* handleSortKeys (EditorToolbar.tsx)
\* ------------------------------------------------------------------------

\* parseJson of src/lib/json/parser.ts, which is not part of the sources: the
\* ParseResult of spec section 3, with the value null beside an error.
ParseResultOf(p) ==
  IF p.ok THEN [value |-> p.val, error |-> FALSE] ELSE [value |-> JNull, error |-> TRUE]

parseJson(text) == ParseResultOf(JsonParse(text))

\* The characters in the order String.prototype.localeCompare gives them:
\* white space, punctuation, symbols, digits, letters; an upper-case letter
\* differs from its lower-case letter only at the last level, where it comes
\* second.
LocaleOrder ==
  <<TAB, NL, " ">> \o PlaceholderWords
  \o <<"-", ",", ":", "!", QUOTE, "[", "]", "{", "}", "/", BSLASH, "&", "#", "%", "$">>
  \o DigitChars
  \o <<"a", "b", "c", "e", "f", "l", "n", "r", "s", "t", "u", "x">>

LowerCase(c) == IF c = "B" THEN "b" ELSE c

LocaleRank(c) == CHOOSE i \in 1..Len(LocaleOrder) : LocaleOrder[i] = LowerCase(c)

\* -1, 0 or 1 as a comes before, with or after b at the first level.
RECURSIVE PrimaryCompare(_, _)
PrimaryCompare(a, b) ==
  IF a = <<>> /\ b = <<>> THEN 0
  ELSE IF a = <<>> THEN -1
  ELSE IF b = <<>> THEN 1
  ELSE IF LocaleRank(Head(a)) < LocaleRank(Head(b)) THEN -1
  ELSE IF LocaleRank(Head(a)) > LocaleRank(Head(b)) THEN 1
  ELSE PrimaryCompare(Tail(a), Tail(b))

\* The same at the level of case, for texts equal at the first level.
RECURSIVE CaseCompare(_, _)
CaseCompare(a, b) ==
  IF a = <<>> \/ b = <<>> THEN 0
  ELSE IF Head(a) = Head(b) THEN CaseCompare(Tail(a), Tail(b))
  ELSE IF Head(a) = LowerCase(Head(a)) THEN -1
  ELSE 1

LeveledCompare(primary, a, b) == IF primary # 0 THEN primary ELSE CaseCompare(a, b)

\* a.localeCompare(b)
localeCompare(a, b) == LeveledCompare(PrimaryCompare(a, b), a, b)

\* The comparator of keys.sort: ascending ? a.localeCompare(b)
\* : b.localeCompare(a)
KeyCompare(a, b, ascending) ==
  IF ascending THEN localeCompare(a, b) ELSE localeCompare(b, a)

RECURSIVE InsertByLocale(_, _, _)
InsertByLocale(sortedMembers, m, ascending) ==
  IF sortedMembers = <<>> THEN <<m>>
  ELSE IF KeyCompare(m.k, Head(sortedMembers).k, ascending) < 0
    THEN <<m>> \o sortedMembers
  ELSE <<Head(sortedMembers)>> \o InsertByLocale(Tail(sortedMembers), m, ascending)

\* keys.sort((a, b) => ...)
RECURSIVE SortByLocale(_, _)
SortByLocale(members, ascending) ==
  IF members = <<>> THEN <<>>
  ELSE InsertByLocale(SortByLocale(Tail(members), ascending), Head(members), ascending)

\* sortObject(obj): sorted[key] = sortObject(obj[key]) for each key in the
\* sorted order.
RECURSIVE sortObject(_, _)
SortedByLocale(keys, ascending) ==
  JObj(PutAll(<<>>, [i \in 1..Len(keys) |->
                       [k |-> keys[i].k, v |-> sortObject(keys[i].v, ascending)]]))

sortObject(obj, ascending) ==
  IF obj.t = "arr" THEN
    JArr([i \in 1..Len(obj.items) |-> sortObject(ElementAt(obj.items, i), ascending)])
  ELSE IF obj.t = "obj" THEN SortedByLocale(SortByLocale(obj.items, ascending), ascending)
  ELSE obj

\* if (error || value === null) return
SortSkipped(result) == result.error \/ result.value = JNull

\* JSON.stringify(sorted, null, 2)
SortedText(value, ascending) == JsonStringify(sortObject(value, ascending), <<" ", " ">>)

\* ------------------------------------------------------------------------
\* Input documents and options
\* ------------------------------------------------------------------------

\* The most members an input object has, and the most elements an input array.
MaxMembers == 2
MaxElems == 2

Lit(body) == <<QUOTE>> \o body \o <<QUOTE>>
TemplateVar == <<"{", "{", "x", "}", "}">>
TemplateDollars == <<"{", "{", "$", "$", "$", "$", "}", "}">>
One == <<"1">>

TuplesUpTo(S, n) == UNION {[1..k -> S] : k \in 0..n}

ArrayText(elems, loose) ==
  <<"[">> \o Join(elems, IF loose THEN <<",", " ">> ELSE <<",">>) \o <<"]">>

ObjectText(members, loose) ==
  <<"{">>
  \o Join([i \in 1..Len(members) |->
             members[i][1] \o (IF loose THEN <<":", " ">> ELSE <<":">>) \o members[i][2]],
          IF loose THEN <<",", " ">> ELSE <<",">>)
  \o <<"}">>

\* Objects whose keys include an array index and may repeat.
KeyedDocs(loose) ==
  {ObjectText(ms, loose) :
     ms \in TuplesUpTo({Lit(<<"b">>), Lit(<<"a">>), Lit(One)} \X {One}, MaxMembers)}

\* Arrays of strings that hold templates and of a bare template.
TemplateElems ==
  {Lit(TemplateVar), Lit(TemplateDollars), Lit(<<"a">> \o TemplateVar), TemplateVar}

TemplateDocs == {ArrayText(es, FALSE) : es \in TuplesUpTo(TemplateElems, MaxElems)}

\* Arrays of numbers and of nested arrays and objects, bare or as a member.
NestedArrays ==
  {ArrayText(es, TRUE) :
     es \in TuplesUpTo({One, ArrayText(<<One, One>>, TRUE),
                        ObjectText(<< <<Lit(<<"b">>), One>> >>, TRUE)}, MaxElems)}

NestedDocs ==
  NestedArrays \cup {ObjectText(<< <<Lit(<<"a">>), a>> >>, TRUE) : a \in NestedArrays}

\* Objects and arrays for the key sorts: keys that differ in case, a nested
\* object and an object in an array, with their keys out of order.
UnsortedObject == ObjectText(<< <<Lit(<<"b">>), One>>, <<Lit(<<"a">>), One>> >>, FALSE)

SortDocs ==
  { ObjectText(<< <<Lit(<<"a">>), One>>, <<Lit(<<"B">>), One>> >>, FALSE),
    ObjectText(<< <<Lit(<<"b">>), UnsortedObject>>, <<Lit(<<"a">>), One>> >>, FALSE),
    ArrayText(<<UnsortedObject, One>>, FALSE),
    <<"n", "u", "l", "l">> }

ScalarDocs == {One, <<"-", "0">>, Lit(<<"a", BSLASH, "/">>), <<" ", "n", "u", "l", "l", NL>>}

ValidDocs ==
  KeyedDocs(FALSE) \cup KeyedDocs(TRUE) \cup TemplateDocs \cup NestedDocs \cup ScalarDocs
  \cup SortDocs

\* A document cut before its last character, or with a comma before it.
BrokenDocs ==
  UNION {{SubSeq(d, 1, Len(d) - 1),
          SubSeq(d, 1, Len(d) - 1) \o <<",", d[Len(d)]>>} :
         d \in KeyedDocs(FALSE) \cup {ArrayText(<<e>>, FALSE) : e \in TemplateElems}}
  \cup {<<"n", "o">>, <<"1", " ", "x">>}

Documents == ValidDocs \cup BrokenDocs

Spaces(n) == [kind |-> "spaces", n |-> n]

OptionSets ==
  { [indent |-> Spaces(2), maxLineLength |-> 12,
     preserveTemplates |-> TRUE, autoRepair |-> TRUE],
    [indent |-> [kind |-> "tab", n |-> 0], maxLineLength |-> 8,
     preserveTemplates |-> TRUE, autoRepair |-> FALSE],
    [indent |-> Spaces(4), maxLineLength |-> 8,
     preserveTemplates |-> FALSE, autoRepair |-> TRUE] }

\* ------------------------------------------------------------------------
\* The editor document and the formatter calls made on it
\* ------------------------------------------------------------------------

VARIABLES
  orig,           \* the text the document was opened with
  opts,           \* the FormatOptions the calls are made with
  doc,            \* the content of the document
  lastOp,         \* the last operation called
  lastIn,         \* the text it was given
  out,            \* the text it returned
  threw,          \* whether it threw instead of returning a text
  pc,             \* "idle", or "formatJson" inside a formatJson call
  callInput,      \* the input of the running invocation of formatJson
  callAutoRepair, \* its autoRepair option
  depth,          \* the invocations of formatJson the call has entered
  repairCalls,    \* the calls of repairJson the call has made
  repairInput,    \* the text the last of them was given
  repaired        \* what the last of them returned

\* The worker hook of src/hooks/useWorker.ts and the calls made through it.
VARIABLES
  enabled,        \* the enabled option of the hook
  workerRef,      \* workerRef.current: "worker" or "null"
  workerRunning,  \* the worker exists and has not been terminated
  workerState,    \* workerStateRef.current
  isAvailable,    \* worker.isAvailable as the last render returned it
  isMounted,      \* isMounted of the effect
  onReady,        \* the once-only ready listener is still registered
  pendingRef,     \* the ids of pendingRef.current, each with its timer armed
  calls,          \* the calls of the hook function, by correlation id
  inbox,          \* the ids of the messages posted to the worker, in order
  outbox,         \* the ids of the responses on their way to onmessage
  job,            \* the operation, input and indent every call is made with
  onFailure       \* what the catch clause of the hook function returns for it

\* The Ajv instance of src/lib/json/validator.ts and the last call made on
\* the validator.
VARIABLES
  ajvCache,       \* the schema objects the instance has compiled
  ajvRefs,        \* the schema identifiers registered with the instance
  vOp,            \* the last function called
  vSchema,        \* the schema it was given
  vInput,         \* the data or the text it was given
  vCompiled,      \* whether ajv.compile returned in that call
  vOut            \* what the call returned, or that it threw

\* The calls of the path functions of src/lib/json/validator.ts.
VARIABLES
  lPath,          \* the JSON Pointer the function is given
  lText,          \* the text findPathLine is given
  lOp,            \* the last function called
  lOut            \* what it returned

\* The filter tab of the transform dialog (FilterTab).
VARIABLES
  parsedContent,  \* the value of the document, null when it does not parse
  conditions,     \* the FilterConditions the user has entered
  logic           \* "and" or "or"

\* The calls of extractTemplates and restoreTemplates on a text.
VARIABLES
  tInput,           \* the text extractTemplates is given
  tText,            \* processed, then result: the text as the calls rewrite it
  tPlaceholders,    \* the placeholders extractTemplates has registered
  tIndex,           \* the index i of the loop of restoreTemplates, from one
  tOrder,           \* the indices the loop has restored, in its order
  tPc               \* "input", "extracted", "restoring", "restored"

\* The editor events (EditorState) and the TextEditors that handle them.
VARIABLES
  pendingEvent,     \* the event that waits for an editor, or null
  panelLayout,      \* "single" or "split"
  rightPanelDocId,  \* the right panel has a document to show
  jsonError,        \* the text of the active document does not parse
  textEditors,      \* by panel: no TextEditor, one that loads Monaco, a ready one
  effectDeps,       \* by panel: the dependencies the event effect last ran with
  rendered,         \* React has rendered the state and run the effects
  raised,           \* the events raised so far
  handled           \* the times an editor has handled the last event raised

\* The toasts of ToastProvider (src/store/toastStore.tsx).
VARIABLES
  toasts,           \* the toasts displayed, oldest first
  timers,           \* the ids whose auto-dismiss timer is pending
  toastsMade,       \* the toasts createToast has made
  dropped           \* the id of the toast the last addToast dropped, or 0

\* The search bar (SearchBar.tsx) and the loop of findMatches (search.ts).
VARIABLES
  sContent,         \* the content prop of the search bar
  searchText,       \* the text searched for
  caseSensitive,    \* the case option
  useRegex,         \* the regular expression option
  lastIndex,        \* regex.lastIndex
  sMatches,         \* the matches pushed so far
  sPc               \* "render", "loop" inside the while loop, or "done"

\* The document store (DocumentState), the drag of a tab, and IndexedDB.
VARIABLES
  documents,        \* the Map of the open documents, by id
  activeDocumentId, \* the id of the active document, or null
  tabOrder,         \* the ids of the tabs, left to right
  restored,         \* the state is the one RESTORE_SESSION has returned
  draggedIndex,     \* the index of the tab being dragged, or null
  isInitialized,    \* isInitializedRef of usePersistence
  previousDocIds,   \* previousDocIdsRef of usePersistence
  storedDocs,       \* the documents in IndexedDB, by id
  storedSession,    \* the session in IndexedDB, or null
  nextId            \* the ids generateId has handed out, plus one

fmtVars == <<orig, opts, doc, lastOp, lastIn, out, threw, pc,
             callInput, callAutoRepair, depth, repairCalls, repairInput, repaired>>

workerVars == <<enabled, workerRef, workerRunning, workerState, isAvailable,
                isMounted, onReady, pendingRef, calls, inbox, outbox, job, onFailure>>

validatorVars == <<ajvCache, ajvRefs, vOp, vSchema, vInput, vCompiled, vOut>>

locatorVars == <<lPath, lText, lOp, lOut>>

filterVars == <<parsedContent, conditions, logic>>

templateVars == <<tInput, tText, tPlaceholders, tIndex, tOrder, tPc>>

editorVars == <<pendingEvent, panelLayout, rightPanelDocId, jsonError, textEditors,
                effectDeps, rendered, raised, handled>>

\* The state of the interface outside the document store.
toastVars == <<toasts, timers, toastsMade, dropped>>

searchVars == <<sContent, searchText, caseSensitive, useRegex, lastIndex, sMatches, sPc>>

uiVars == <<editorVars, toastVars, searchVars>>

storeVars == <<documents, activeDocumentId, tabOrder, restored, draggedIndex,
               isInitialized, previousDocIds, storedDocs, storedSession, nextId>>

vars == <<fmtVars, workerVars, validatorVars, locatorVars, filterVars, storeVars, uiVars, templateVars>>

callVars == <<callInput, callAutoRepair, depth, repairCalls, repairInput, repaired>>

\* No call of repairJson has returned.
NotRepaired == [output |-> <<>>, error |-> FALSE, wasRepaired |-> FALSE]

\* The most invocations of formatJson a call is followed through.
MaxCallDepth == 3

FormatterInit ==
  /\ orig \in Documents
  /\ opts \in OptionSets
  /\ doc = orig
  /\ lastOp = "none"
  /\ lastIn = <<>>
  /\ out = <<>>
  /\ threw = FALSE
  /\ pc = "idle"
  /\ callInput = <<>>
  /\ callAutoRepair = FALSE
  /\ depth = 0
  /\ repairCalls = 0
  /\ repairInput = <<>>
  /\ repaired = NotRepaired

otherThanFormatter == <<workerVars, validatorVars, locatorVars, filterVars, storeVars, uiVars, templateVars>>

\* An operation called on the document returns or throws.
Finish(op, outcome) ==
  /\ lastOp' = op
  /\ lastIn' = doc
  /\ out' = outcome.text
  /\ threw' = outcome.threw
  /\ pc' = "idle"

\* formatJson(doc, opts) is called.
FormatCall ==
  /\ pc = "idle"
  /\ pc' = "formatJson"
  /\ callInput' = doc
  /\ callAutoRepair' = opts.autoRepair
  /\ depth' = 1
  /\ repairCalls' = 0
  /\ repairInput' = <<>>
  /\ repaired' = NotRepaired
  /\ lastOp' = "format"
  /\ lastIn' = doc
  /\ out' = <<>>
  /\ threw' = FALSE
  /\ UNCHANGED <<orig, opts, doc>>
  /\ UNCHANGED otherThanFormatter

\* The outcome of an operation reaches the caller; handleFormat and
\* handleCompact make the returned text the content of the document.
Returned(op, outcome, update) ==
  /\ Finish(op, outcome)
  /\ doc' = IF update /\ ~outcome.threw THEN outcome.text ELSE doc

\* The try block of the running invocation succeeds: its text is returned
\* through every enclosing invocation.
ReturnTried(tried) ==
  /\ tried.ok
  /\ Returned("format", Return(tried.text), TRUE)

FormatReturn ==
  /\ pc = "formatJson"
  /\ ReturnTried(FormatTry(callInput, opts))
  /\ UNCHANGED <<orig, opts, callVars>>
  /\ UNCHANGED otherThanFormatter

\* The catch block with autoRepair on and a useful repair: formatJson is
\* invoked on the repaired text.
RetryOn(attempt) ==
  /\ attempt.useful
  /\ callInput' = attempt.output

RetryWith(result) ==
  /\ RetryOn(RepairChecked(result, callInput))
  /\ repaired' = result

\* The text the catch block hands to the engine, were it the text of the try
\* block.
RepairArgumentProcessed(input, ex) == ex.processed

\* repairJson(input, { preserveTemplates }): the input of the invocation, not
\* the processedInput the try block parsed.
RepairArgument(input, ex) == input

\* The call of repairJson in the catch block.
RepairCalled(arg) ==
  /\ repairInput' = arg
  /\ repairCalls' = repairCalls + 1

FormatRetry ==
  /\ pc = "formatJson"
  /\ ~FormatTry(callInput, opts).ok
  /\ callAutoRepair
  /\ depth < MaxCallDepth
  /\ RepairCalled(RepairArgument(callInput, ExtractIfEnabled(callInput, opts.preserveTemplates)))
  /\ \E result \in RepairOutcomes(repairInput') : RetryWith(result)
  /\ callAutoRepair' = RetryAutoRepair(callAutoRepair)
  /\ depth' = depth + 1
  /\ UNCHANGED <<orig, opts, doc, lastOp, lastIn, out, threw, pc>>
  /\ UNCHANGED otherThanFormatter

\* The catch block returns the input of the invocation: autoRepair is off,
\* or the repair is not useful.
GiveUpWith(result) ==
  /\ ~RepairChecked(result, callInput).useful
  /\ repaired' = result

FormatGiveUp ==
  /\ pc = "formatJson"
  /\ ~FormatTry(callInput, opts).ok
  /\ IF callAutoRepair
     THEN /\ RepairCalled(RepairArgument(callInput,
                                        ExtractIfEnabled(callInput, opts.preserveTemplates)))
          /\ \E result \in RepairOutcomes(repairInput') : GiveUpWith(result)
     ELSE UNCHANGED <<repairCalls, repairInput, repaired>>
  /\ Returned("format", Return(callInput), TRUE)
  /\ UNCHANGED <<orig, opts, callInput, callAutoRepair, depth>>
  /\ UNCHANGED otherThanFormatter

CompactCall ==
  /\ pc = "idle"
  /\ Returned("compact", compactJson(doc, opts), TRUE)
  /\ UNCHANGED <<orig, opts, callVars>>
  /\ UNCHANGED otherThanFormatter

SmartFormatCall ==
  /\ pc = "idle"
  /\ Returned("smartFormat", smartFormatJson(doc, opts), FALSE)
  /\ UNCHANGED <<orig, opts, callVars>>
  /\ UNCHANGED otherThanFormatter

SortKeysCall ==
  /\ pc = "idle"
  /\ Returned("sortKeys", sortJsonKeys(doc, opts), FALSE)
  /\ UNCHANGED <<orig, opts, callVars>>
  /\ UNCHANGED otherThanFormatter

\* The name handleSortKeys(ascending) is recorded under.
SortOp(ascending) == IF ascending THEN "sortAscending" ELSE "sortDescending"

\* handleSortKeys(ascending): nothing is written when the content does not
\* parse or its value is null, else the sorted value becomes the content.
SortHandled(result, ascending) ==
  IF SortSkipped(result)
  THEN /\ Finish(SortOp(ascending), Return(<<>>))
       /\ doc' = doc
  ELSE Returned(SortOp(ascending), Return(SortedText(result.value, ascending)), TRUE)

HandleSortKeys ==
  /\ pc = "idle"
  /\ doc # <<>>
  /\ \E ascending \in BOOLEAN : SortHandled(parseJson(doc), ascending)
  /\ UNCHANGED <<orig, opts, callVars>>
  /\ UNCHANGED otherThanFormatter

\* ------------------------------------------------------------------------
\* Worker hooks (hooks/useWorker.ts)
\* ------------------------------------------------------------------------

\* The most calls of a hook function in a behaviour.
MaxCalls == 2

\* What a hook function returns: { output, error } of format and compact,
\* { value, error } of parse, { valid, error } of validateSyntax; error is
\* whether an error is reported.
Result(output, value, valid, error) ==
  [output |-> output, value |-> value, valid |-> valid, error |-> error]

NoResult == Result(<<>>, JNull, FALSE, FALSE)

\* The fallback of a hook function when worker.isAvailable is false; space
\* is the third argument of JSON.stringify in format.
FallbackParsed(parsed, j, space) ==
  IF j.op = "format" THEN
    (IF parsed.ok THEN Result(JsonStringify(parsed.val, space), JNull, FALSE, FALSE)
     ELSE Result(j.input, JNull, FALSE, TRUE))
  ELSE IF j.op = "compact" THEN
    (IF parsed.ok THEN Result(JsonStringify(parsed.val, <<>>), JNull, FALSE, FALSE)
     ELSE Result(j.input, JNull, FALSE, TRUE))
  ELSE IF j.op = "parse" THEN
    (IF parsed.ok THEN Result(<<>>, parsed.val, FALSE, FALSE)
     ELSE Result(<<>>, JNull, FALSE, TRUE))
  ELSE Result(<<>>, JNull, parsed.ok, ~parsed.ok)

FallbackUnavailable(j) == FallbackParsed(JsonParse(j.input), j, IndentStr(j.indent))

\* The fallback of a hook function in the catch clause around postMessage;
\* format calls JSON.stringify(parsed, null, 2) there.
FallbackAfterFailure(j) == FallbackParsed(JsonParse(j.input), j, <<" ", " ">>)

\* The response of the worker to a message: the worker runs the function of
\* the core the message names, with the options of the message.
WorkerOptions(j) ==
  [indent |-> j.indent, maxLineLength |-> 80,
   preserveTemplates |-> TRUE, autoRepair |-> TRUE]

WorkerCompute(j) ==
  IF j.op = "format" THEN Result(formatJson(j.input, WorkerOptions(j)), JNull, FALSE, FALSE)
  ELSE IF j.op = "compact"
    THEN Result(compactJson(j.input, WorkerOptions(j)).text, JNull, FALSE, FALSE)
  ELSE FallbackParsed(JsonParse(j.input), j, <<>>)

WorkerDocs ==
  { ArrayText(<<One>>, FALSE), <<"[", "1", ",", "]">>, ArrayText(<<TemplateVar>>, FALSE) }

Jobs ==
  { [op |-> "format", input |-> d, indent |-> i] :
      d \in WorkerDocs, i \in {Spaces(2), Spaces(4)} }
  \cup { [op |-> o, input |-> d, indent |-> Spaces(2)] :
           o \in {"compact", "parse", "validateSyntax"}, d \in WorkerDocs }

\* The state after the first render and its effect: the worker is created
\* when the hook is enabled and workerFactory does not throw; the render
\* itself returned isWorkerAvailable as it was before the effect.
WorkerInit ==
  /\ enabled \in BOOLEAN
  /\ \E created \in BOOLEAN :
       /\ workerRef = IF enabled /\ created THEN "worker" ELSE "null"
       /\ workerRunning = (enabled /\ created)
       /\ workerState = [isReady |-> TRUE, error |-> enabled /\ ~created,
                         isWorkerAvailable |-> enabled /\ created]
       /\ onReady = (enabled /\ created)
  /\ isAvailable = FALSE
  /\ isMounted = TRUE
  /\ pendingRef = {}
  /\ calls = <<>>
  /\ inbox = <<>>
  /\ outbox = {}
  /\ job \in Jobs
  /\ onFailure = FallbackAfterFailure(job)

WorkerParked ==
  /\ enabled = FALSE
  /\ workerRef = "null"
  /\ workerRunning = FALSE
  /\ workerState = [isReady |-> TRUE, error |-> FALSE, isWorkerAvailable |-> FALSE]
  /\ onReady = FALSE
  /\ isAvailable = FALSE
  /\ isMounted = TRUE
  /\ pendingRef = {}
  /\ calls = <<>>
  /\ inbox = <<>>
  /\ outbox = {}
  /\ job = [op |-> "format", input |-> <<>>, indent |-> Spaces(2)]
  /\ onFailure = NoResult

FormatterParked ==
  /\ orig = <<>>
  /\ opts = [indent |-> Spaces(2), maxLineLength |-> 80,
             preserveTemplates |-> TRUE, autoRepair |-> TRUE]
  /\ doc = <<>>
  /\ lastOp = "none"
  /\ lastIn = <<>>
  /\ out = <<>>
  /\ threw = FALSE
  /\ pc = "idle"
  /\ callInput = <<>>
  /\ callAutoRepair = FALSE
  /\ depth = 0
  /\ repairCalls = 0
  /\ repairInput = <<>>
  /\ repaired = NotRepaired

otherThanWorker == <<fmtVars, validatorVars, locatorVars, filterVars, storeVars, uiVars, templateVars>>

\* A call of a hook function and the promise of its postMessage: settles
\* counts the calls of resolve and reject, of which the first decides.
NewCall(status, path, reason, settles, result) ==
  [status |-> status, path |-> path, reason |-> reason,
   settles |-> settles, result |-> result]

\* resolve or reject is called on the promise of a call: the awaiting hook
\* function returns, a settled promise stays as it is.
Settle(c, path, reason, result) ==
  IF c.status = "awaiting"
  THEN NewCall("returned", path, reason, c.settles + 1, result)
  ELSE [c EXCEPT !.settles = @ + 1]

\* The entries leave the map without a call of reject.
RejectNone(cs, ids, reason) == cs

\* pending.reject(new Error(reason)) for every entry of the map; each hook
\* function awaiting one of them falls back in its catch clause.
RejectAll(cs, ids, reason) ==
  [i \in DOMAIN cs |->
     IF i \in ids THEN Settle(cs[i], "fallback", reason, onFailure)
     ELSE cs[i]]

\* onmessage without the test of the pending entry.
HasPendingUnchecked(pendingIds, id) == TRUE

\* pendingRef.current.get(id) is defined.
HasPending(pendingIds, id) == id \in pendingIds

\* The component renders again: the hook returns the worker state of now.
Render ==
  /\ isMounted
  /\ isAvailable # workerState.isWorkerAvailable
  /\ isAvailable' = workerState.isWorkerAvailable
  /\ UNCHANGED <<enabled, workerRef, workerRunning, workerState, isMounted, onReady,
                 pendingRef, calls, inbox, outbox, job, onFailure>>
  /\ UNCHANGED otherThanWorker

\* format, compact, parse or validateSyntax is called: the fallback when the
\* worker is not available, otherwise postMessage, which rejects at once
\* without a worker or when posting throws, and else registers the pending
\* entry with its timer and posts the message.
CallHook ==
  /\ Len(calls) < MaxCalls
  /\ LET id == Len(calls) + 1
     IN IF ~isAvailable THEN
          /\ calls' = Append(calls, NewCall("returned", "fallback", "", 0,
                                            FallbackUnavailable(job)))
          /\ UNCHANGED <<pendingRef, inbox>>
        ELSE IF ~enabled \/ workerRef = "null" THEN
          /\ calls' = Append(calls, NewCall("returned", "fallback", "Worker not available",
                                            1, FallbackAfterFailure(job)))
          /\ UNCHANGED <<pendingRef, inbox>>
        ELSE \E postThrows \in BOOLEAN :
          IF postThrows THEN
            /\ calls' = Append(calls, NewCall("returned", "fallback", "Failed to post message",
                                              1, FallbackAfterFailure(job)))
            /\ UNCHANGED <<pendingRef, inbox>>
          ELSE
            /\ calls' = Append(calls, NewCall("awaiting", "none", "", 0, NoResult))
            /\ pendingRef' = pendingRef \cup {id}
            /\ inbox' = Append(inbox, id)
  /\ UNCHANGED <<enabled, workerRef, workerRunning, workerState, isAvailable, isMounted,
                 onReady, outbox, job, onFailure>>
  /\ UNCHANGED otherThanWorker

\* The timer of a pending entry fires: the entry is deleted and the promise
\* rejected.
Timeout ==
  /\ \E id \in pendingRef :
       /\ pendingRef' = pendingRef \ {id}
       /\ calls' = RejectAll(calls, {id}, "Worker timeout")
  /\ UNCHANGED <<enabled, workerRef, workerRunning, workerState, isAvailable, isMounted,
                 onReady, inbox, outbox, job, onFailure>>
  /\ UNCHANGED otherThanWorker

\* The worker takes the next message and posts the response with its id.
WorkerRespond ==
  /\ workerRunning
  /\ inbox # <<>>
  /\ outbox' = outbox \cup {Head(inbox)}
  /\ inbox' = Tail(inbox)
  /\ UNCHANGED <<enabled, workerRef, workerRunning, workerState, isAvailable, isMounted,
                 onReady, pendingRef, calls, job, onFailure>>
  /\ UNCHANGED otherThanWorker

\* A response arrives: onmessage resolves the pending entry of its id if
\* there is one, and the ready listener runs on the first message.
Deliver ==
  /\ workerRunning
  /\ \E id \in outbox :
       /\ outbox' = outbox \ {id}
       /\ IF HasPending(pendingRef, id)
          THEN /\ pendingRef' = pendingRef \ {id}
               /\ calls' = [calls EXCEPT ![id] = Settle(@, "worker", "", WorkerCompute(job))]
          ELSE UNCHANGED <<pendingRef, calls>>
  /\ onReady' = FALSE
  /\ workerState' = IF onReady /\ isMounted
                    THEN [isReady |-> TRUE, error |-> FALSE, isWorkerAvailable |-> TRUE]
                    ELSE workerState
  /\ UNCHANGED <<enabled, workerRef, workerRunning, isAvailable, isMounted, inbox, job, onFailure>>
  /\ UNCHANGED otherThanWorker

\* onerror: the worker state records the error and every pending entry is
\* rejected.
WorkerError ==
  /\ workerRunning
  /\ workerState' = IF isMounted
                    THEN [isReady |-> TRUE, error |-> TRUE, isWorkerAvailable |-> FALSE]
                    ELSE workerState
  /\ calls' = RejectAll(calls, pendingRef, "Worker error")
  /\ pendingRef' = {}
  /\ UNCHANGED <<enabled, workerRef, workerRunning, isAvailable, isMounted, onReady,
                 inbox, outbox, job, onFailure>>
  /\ UNCHANGED otherThanWorker

\* The cleanup of the effect: the worker is terminated and every pending
\* entry rejected.
Unmount ==
  /\ isMounted
  /\ workerRef = "worker"
  /\ isMounted' = FALSE
  /\ workerRunning' = FALSE
  /\ workerRef' = "null"
  /\ calls' = RejectAll(calls, pendingRef, "Worker terminated")
  /\ pendingRef' = {}
  /\ inbox' = <<>>
  /\ outbox' = {}
  /\ UNCHANGED <<enabled, workerState, isAvailable, onReady, job, onFailure>>
  /\ UNCHANGED otherThanWorker

\* ------------------------------------------------------------------------
\* Schema validator (lib/json/validator.ts)
\* ------------------------------------------------------------------------

\* The most schema objects with the identifier "s" (each parse of a schema
\* text makes a new object).
MaxSameId == 2

JSONTypes == {"number", "string", "array"}

SchemaObject(obj, id, type) ==
  [kind |-> "object", obj |-> obj, id |-> id, type |-> type, items |-> ""]

\* { "type": "array", "items": { "type": items } }
ItemsSchema(obj, items) == [SchemaObject(obj, "", "array") EXCEPT !.items = items]

\* The candidates handed to the validator: { "type": "number" }, objects of
\* { "$id": "s", "type": "string" }, { "type": "bogus" }, an array schema
\* with items of type number, and the number 42.
SchemaObjects ==
  { SchemaObject(0, "", "number"), SchemaObject(1, "", "bogus"), ItemsSchema(-1, "number") }
  \cup { SchemaObject(1 + n, "s", "string") : n \in 1..MaxSameId }

Candidates == SchemaObjects \cup { [kind |-> "number", obj |-> 0, id |-> "", type |-> ""] }

DataValues ==
  { JNum(1), JStr(<<"a">>), JBool(TRUE),
    JArr(<<JNum(1), JStr(<<"a">>)>>), JArr(<<JStr(<<"a">>), JBool(TRUE)>>) }

DataTexts ==
  { <<"1">>, Lit(<<"a">>), <<"t", "r", "u", "e">>, <<"{">>,
    ArrayText(<<One, Lit(<<"a">>)>>, FALSE) }

\* ajv.compile(schema) on the one Ajv instance: a schema object compiled
\* before comes from the cache; otherwise a candidate that is no object, an
\* identifier another schema object has registered, or a schema the
\* meta-schema rejects makes compile throw; a compiled schema is added to
\* the cache and its identifier registered.
AjvCompile(cache, refs, schema) ==
  IF schema.kind # "object" THEN [ok |-> FALSE, cache |-> cache, refs |-> refs]
  ELSE IF schema.obj \in cache THEN [ok |-> TRUE, cache |-> cache, refs |-> refs]
  ELSE IF schema.id # "" /\ schema.id \in refs
    THEN [ok |-> FALSE, cache |-> cache, refs |-> refs]
  ELSE IF schema.type \notin JSONTypes THEN [ok |-> FALSE, cache |-> cache, refs |-> refs]
  ELSE [ok |-> TRUE, cache |-> cache \cup {schema.obj},
        refs |-> IF schema.id = "" THEN refs ELSE refs \cup {schema.id}]

\* typeof-like test of the keyword type.
HasType(data, type) ==
  \/ type = "number" /\ data.t = "num"
  \/ type = "string" /\ data.t = "str"
  \/ type = "array" /\ data.t = "arr"

\* An ErrorObject of Ajv for the keyword type: the instance path is the
\* JSON Pointer of the failing value, empty for the root.
TypeError(instancePath, schemaPath) ==
  [instancePath |-> instancePath, keyword |-> "type", schemaPath |-> schemaPath]

\* The sequence without the elements that are no error.
RECURSIVE Compact(_)
Compact(errors) ==
  IF errors = <<>> THEN <<>>
  ELSE (IF Head(errors).keyword = "" THEN <<>> ELSE <<Head(errors)>>) \o Compact(Tail(errors))

\* validate(data) with allErrors: the errors of the root, else one for each
\* element that is not of the type of items.
AjvErrors(data, schema) ==
  IF ~HasType(data, schema.type) THEN <<TypeError(<<>>, <<"#", "/", "type">>)>>
  ELSE IF schema.items = "" THEN <<>>
  ELSE Compact([i \in 1..Len(data.items) |->
                  IF HasType(data.items[i], schema.items)
                  THEN [instancePath |-> <<>>, keyword |-> "", schemaPath |-> <<>>]
                  ELSE TypeError(<<"/">> \o NatDigits(i - 1),
                                 <<"#", "/", "i", "t", "e", "m", "s", "/", "type">>)])

\* errorToValidationError without the default of the path.
errorToValidationErrorBare(error) ==
  [path |-> error.instancePath, keyword |-> error.keyword, schemaPath |-> error.schemaPath]

\* errorToValidationError: path = error.instancePath || '/'
errorToValidationError(error) ==
  [path |-> IF error.instancePath = <<>> THEN <<"/">> ELSE error.instancePath,
   keyword |-> error.keyword, schemaPath |-> error.schemaPath]

MapErrors(errors) == [i \in 1..Len(errors) |-> errorToValidationError(errors[i])]

\* (validate.errors ?? []).map(errorToValidationError)
ValidationErrors(data, schema) == MapErrors(AjvErrors(data, schema))

\* What a function of the validator returns, or that it threw.
VResult(thrown, value, errors, parseError) ==
  [threw |-> thrown, value |-> value, errors |-> errors, parseError |-> parseError]

Validated(compiled, data, schema) ==
  IF compiled.ok THEN VResult(FALSE, FALSE, ValidationErrors(data, schema), FALSE)
  ELSE VResult(TRUE, FALSE, <<>>, FALSE)

validateJsonSchema(cache, refs, data, schema) ==
  Validated(AjvCompile(cache, refs, schema), data, schema)

\* isValidSchema without its try and catch.
SchemaCheckedUncaught(compiled) ==
  IF compiled.ok THEN VResult(FALSE, TRUE, <<>>, FALSE) ELSE VResult(TRUE, FALSE, <<>>, FALSE)

SchemaChecked(compiled) ==
  IF compiled.ok THEN VResult(FALSE, TRUE, <<>>, FALSE) ELSE VResult(FALSE, FALSE, <<>>, FALSE)

isValidSchema(cache, refs, schema) == SchemaChecked(AjvCompile(cache, refs, schema))

\* parseAndValidate: whatever JSON.parse or validateJsonSchema throws is
\* returned as { parseError }.
Caught(result) == IF result.threw THEN VResult(FALSE, FALSE, <<>>, TRUE) ELSE result

ValidateParsed(cache, refs, parsed, schema) ==
  IF parsed.ok THEN Caught(validateJsonSchema(cache, refs, parsed.val, schema))
  ELSE VResult(FALSE, FALSE, <<>>, TRUE)

parseAndValidate(cache, refs, jsonString, schema) ==
  ValidateParsed(cache, refs, JsonParse(jsonString), schema)

otherThanValidator == <<fmtVars, workerVars, locatorVars, filterVars, storeVars, uiVars, templateVars>>

NoInput == [data |-> JNull, text |-> <<>>]

ValidatorInit ==
  /\ ajvCache = {}
  /\ ajvRefs = {}
  /\ vOp = "none"
  /\ vSchema = SchemaObject(0, "", "number")
  /\ vInput = NoInput
  /\ vCompiled = FALSE
  /\ vOut = VResult(FALSE, FALSE, <<>>, FALSE)

ValidatorParked == ValidatorInit

\* A function of the validator was called: the instance keeps what compile
\* added, the caller gets the result.
Called(op, schema, input, compiled, result) ==
  /\ vOp' = op
  /\ vSchema' = schema
  /\ vInput' = input
  /\ vCompiled' = compiled.ok
  /\ ajvCache' = compiled.cache
  /\ ajvRefs' = compiled.refs
  /\ vOut' = result

ValidateJsonSchemaCall ==
  /\ \E data \in DataValues, schema \in SchemaObjects :
       Called("validateJsonSchema", schema, [data |-> data, text |-> <<>>],
              AjvCompile(ajvCache, ajvRefs, schema),
              validateJsonSchema(ajvCache, ajvRefs, data, schema))
  /\ UNCHANGED otherThanValidator

IsValidSchemaCall ==
  /\ \E schema \in Candidates :
       Called("isValidSchema", schema, NoInput,
              AjvCompile(ajvCache, ajvRefs, schema),
              isValidSchema(ajvCache, ajvRefs, schema))
  /\ UNCHANGED otherThanValidator

\* JSON.parse throws before compile is reached on a text that does not parse.
CompileIfParsed(cache, refs, parsed, schema) ==
  IF parsed.ok THEN AjvCompile(cache, refs, schema)
  ELSE [ok |-> FALSE, cache |-> cache, refs |-> refs]

ParseAndValidateCall ==
  /\ \E text \in DataTexts, schema \in SchemaObjects :
       Called("parseAndValidate", schema, [data |-> JNull, text |-> text],
              CompileIfParsed(ajvCache, ajvRefs, JsonParse(text), schema),
              parseAndValidate(ajvCache, ajvRefs, text, schema))
  /\ UNCHANGED otherThanValidator

\* ------------------------------------------------------------------------
\* Paths of validation errors (lib/json/validator.ts)
\* ------------------------------------------------------------------------

\* The most segments of a pointer given to the path functions.
MaxSegments == 2

\* str.split(sep) for a separator of one character.
RECURSIVE SplitFrom(_, _, _)
SplitFrom(t, sep, piece) ==
  IF t = <<>> THEN <<piece>>
  ELSE IF Head(t) = sep THEN <<piece>> \o SplitFrom(Tail(t), sep, <<>>)
  ELSE SplitFrom(Tail(t), sep, Append(piece, Head(t)))

Split(t, sep) == SplitFrom(t, sep, <<>>)

\* .filter(Boolean) on strings: the empty ones are dropped.
RECURSIVE FilterBoolean(_)
FilterBoolean(pieces) ==
  IF pieces = <<>> THEN <<>>
  ELSE (IF Head(pieces) = <<>> THEN <<>> ELSE <<Head(pieces)>>) \o FilterBoolean(Tail(pieces))

\* path.split('/').filter(Boolean)
Segments(path) == FilterBoolean(Split(path, "/"))

\* /^\d+$/.test(segment)
AllDigits(segment) ==
  segment # <<>> /\ \A i \in 1..Len(segment) : IsDigit(segment[i])

\* The segment as formatPath writes it.
SegmentText(segment) ==
  IF AllDigits(segment) THEN <<"[">> \o segment \o <<"]">> ELSE <<".">> \o segment

\* .replace(/^\./, '')
DropLeadingDot(t) == IF t # <<>> /\ Head(t) = "." THEN Tail(t) ELSE t

JoinSegments(segments) ==
  DropLeadingDot(Join([i \in 1..Len(segments) |-> SegmentText(segments[i])], <<>>))

\* formatPath(path)
formatPath(path) ==
  IF path = <<>> \/ path = <<"/">> THEN <<"r", "o", "o", "t">>
  ELSE JoinSegments(Segments(path))

\* The segments of the pointers: keys, array indices, the empty key and
\* keys with a dot.
\* String.prototype.trim
RECURSIVE TrimEnd(_)
TrimEnd(t) == IF t # <<>> /\ IsWs(t[Len(t)]) THEN TrimEnd(SubSeq(t, 1, Len(t) - 1)) ELSE t

Trim(t) == TrimEnd(From(t, SkipWs(t, 1)))

\* The position after "key" and white space when the line has "key" at
\* position i, followed by white space and a colon; else 0.
AfterKeyColon(line, i, key) ==
  IF StartsAt(line, i, Lit(key))
     /\ StartsAt(line, SkipWs(line, i + Len(key) + 2), <<":">>)
  THEN SkipWs(line, i + Len(key) + 2) + 1
  ELSE 0

\* new RegExp(`^\\s*"${escapeRegex(targetKey)}"\\s*:`).test(line)
KeyPatternTest(line, key) == AfterKeyColon(line, SkipWs(line, 1), key) > 0

\* new RegExp(`"${escapeRegex(seg)}"\\s*:`).test(line)
ParentPatternTest(line, seg) ==
  \E i \in 1..Len(line) : AfterKeyColon(line, i, seg) > 0

\* new RegExp(`"${escapeRegex(parentKey)}"\\s*:\\s*\\[`).test(line)
ArrayPatternTest(line, parentKey) ==
  \E i \in 1..Len(line) :
    /\ AfterKeyColon(line, i, parentKey) > 0
    /\ StartsAt(line, SkipWs(line, AfterKeyColon(line, i, parentKey)), <<"[">>)

\* What the path functions return: null, or a line number.
Null == [null |-> TRUE, line |-> 0]
Line(n) == [null |-> FALSE, line |-> n]

\* lineNum counted from the index itself.
LineNumZeroBased(lineIndex) == lineIndex

\* const lineNum = lineIndex + 1
LineNum(lineIndex) == lineIndex + 1

\* The inner loop of findPathLine over the parent segments: some segment
\* that is no array index has its pattern on the line.
ParentOnLine(line, parentSegments) ==
  \E k \in 1..Len(parentSegments) :
    ~AllDigits(parentSegments[k]) /\ ParentPatternTest(line, parentSegments[k])

\* The loop of findPathLine over the lines from lineIndex on.
RECURSIVE FindKeyLine(_, _, _, _, _)
KeyLineStep(lines, lineIndex, targetKey, parentSegments, matched) ==
  IF KeyPatternTest(lines[lineIndex + 1], targetKey) /\ (parentSegments = <<>> \/ matched)
  THEN Line(LineNum(lineIndex))
  ELSE FindKeyLine(lines, lineIndex + 1, targetKey, parentSegments, matched)

FindKeyLine(lines, lineIndex, targetKey, parentSegments, parentMatched) ==
  IF lineIndex >= Len(lines) THEN Null
  ELSE KeyLineStep(lines, lineIndex, targetKey, parentSegments,
                   parentMatched \/ ParentOnLine(lines[lineIndex + 1], parentSegments))

\* The loop over the characters of a line that counts the brackets; in the
\* target array a closing bracket at its depth ends it.
RECURSIVE CountBrackets(_, _, _)
CountBrackets(line, s, inArray) ==
  IF line = <<>> THEN s
  ELSE IF Head(line) \in {"[", "{"}
    THEN CountBrackets(Tail(line), [s EXCEPT !.depth = @ + 1], inArray)
  ELSE IF Head(line) \in {"]", "}"}
    THEN CountBrackets(Tail(line),
           [s EXCEPT !.depth = @ - 1,
                     !.inTargetArray = IF inArray /\ s.depth - 1 <= s.arrayDepth
                                          /\ Head(line) = "]"
                                       THEN FALSE ELSE @],
           inArray)
  ELSE CountBrackets(Tail(line), s, inArray)

\* The trimmed line starts a value.
StartsValue(trimmedLine) ==
  \/ \E c \in {"{", "[", QUOTE} : StartsAt(trimmedLine, 1, <<c>>)
  \/ trimmedLine # <<>> /\ IsDigit(trimmedLine[1])
  \/ Len(trimmedLine) > 1 /\ trimmedLine[1] = "-" /\ IsDigit(trimmedLine[2])
  \/ \E w \in {<<"t", "r", "u", "e">>, <<"f", "a", "l", "s", "e">>, <<"n", "u", "l", "l">>} :
       StartsAt(trimmedLine, 1, w)

\* afterBracket.trim() && !afterBracket.trim().startsWith(']')
ItemsAfterBracket(afterBracket) ==
  afterBracket # <<>> /\ ~StartsAt(afterBracket, 1, <<"]">>)

\* line.indexOf('[') as a one-based position; the line has one.
IndexOfBracket(line) == CHOOSE i \in 1..Len(line) : line[i] = "[" /\ \A j \in 1..(i - 1) : line[j] # "["

\* The state of the loop of findArrayIndexLine before its first line.
ArrayScanStart == [inTargetArray |-> FALSE, arrayItemCount |-> -1, depth |-> 0, arrayDepth |-> 0]

\* The loop of findArrayIndexLine over the lines from lineIndex on; a
\* parentKey of <<>> stands for null.
RECURSIVE FindItemLine(_, _, _, _, _)
\* The item test after the brackets of a line in the target array.
ItemStep(lines, lineIndex, targetIndex, parentKey, s) ==
  IF s.depth = s.arrayDepth + 1 /\ StartsValue(Trim(lines[lineIndex + 1]))
  THEN IF s.arrayItemCount = targetIndex THEN Line(LineNum(lineIndex))
       ELSE FindItemLine(lines, lineIndex + 1, targetIndex, parentKey,
                         [s EXCEPT !.arrayItemCount = @ + 1])
  ELSE FindItemLine(lines, lineIndex + 1, targetIndex, parentKey, s)

\* The second half of the loop body.
ScanLine(lines, lineIndex, targetIndex, parentKey, s) ==
  IF s.inTargetArray
  THEN ItemStep(lines, lineIndex, targetIndex, parentKey,
                CountBrackets(lines[lineIndex + 1], s, TRUE))
  ELSE FindItemLine(lines, lineIndex + 1, targetIndex, parentKey,
                    CountBrackets(lines[lineIndex + 1], s, FALSE))

\* The line has the array of the parent key.
EnterArray(lines, lineIndex, targetIndex, parentKey, s) ==
  IF targetIndex = 0
     /\ ItemsAfterBracket(Trim(From(lines[lineIndex + 1],
                                     IndexOfBracket(lines[lineIndex + 1]) + 1)))
  THEN Line(LineNum(lineIndex))
  ELSE FindItemLine(lines, lineIndex + 1, targetIndex, parentKey,
                    [s EXCEPT !.inTargetArray = TRUE, !.arrayDepth = s.depth,
                              !.arrayItemCount = 0])

\* A root array opens on the line.
EnterRoot(line, s) ==
  IF StartsAt(Trim(line), 1, <<"[">>) /\ s.depth = 0
  THEN [s EXCEPT !.inTargetArray = TRUE, !.arrayDepth = 0, !.arrayItemCount = 0]
  ELSE s

FindItemLine(lines, lineIndex, targetIndex, parentKey, s) ==
  IF lineIndex >= Len(lines) THEN Null
  ELSE IF parentKey # <<>> /\ ~s.inTargetArray
    THEN IF ArrayPatternTest(lines[lineIndex + 1], parentKey)
         THEN EnterArray(lines, lineIndex, targetIndex, parentKey, s)
         ELSE ScanLine(lines, lineIndex, targetIndex, parentKey, s)
  ELSE IF parentKey = <<>>
    THEN ScanLine(lines, lineIndex, targetIndex, parentKey, EnterRoot(lines[lineIndex + 1], s))
  ELSE ScanLine(lines, lineIndex, targetIndex, parentKey, s)

\* findArrayIndexLine(jsonString, segments)
findArrayIndexLine(jsonString, segments) ==
  FindItemLine(Split(jsonString, NL), 0, DigitsVal(segments[Len(segments)], 0),
               IF Len(segments) > 1 THEN segments[Len(segments) - 1] ELSE <<>>,
               ArrayScanStart)

\* findPathLine past its first test, with the segments of the path.
FindSegmentsLine(jsonString, segments) ==
  IF segments = <<>> THEN Line(1)
  ELSE IF AllDigits(segments[Len(segments)]) THEN findArrayIndexLine(jsonString, segments)
  ELSE FindKeyLine(Split(jsonString, NL), 0, segments[Len(segments)],
                   SubSeq(segments, 1, Len(segments) - 1), Len(segments) = 1)

\* findPathLine(jsonString, path)
findPathLine(jsonString, path) ==
  IF path = <<>> \/ path = <<"/">> THEN Line(1)
  ELSE FindSegmentsLine(jsonString, Segments(path))

PathSegments ==
  {<<>>, <<"a">>, <<"b">>, <<"0">>, <<"1">>, <<"a", ".">>, <<".", "a">>, <<"a", ".", "b">>}

\* The JSON Pointer of a sequence of segments: "/" before each.
PointerOf(segments) ==
  Join([i \in 1..Len(segments) |-> <<"/">> \o segments[i]], <<>>)

Pointers == {PointerOf(segments) : segments \in TuplesUpTo(PathSegments, MaxSegments)}

\* The pointers and a path that is no pointer.
Paths == Pointers \cup {<<"a">>}

\* The documents whose lines are looked for: objects and arrays on one line.
LocatorDocs ==
  { ObjectText(<< <<Lit(<<"a">>), ArrayText(<<One, One>>, TRUE)>>,
                  <<Lit(<<"b">>), ObjectText(<< <<Lit(<<"a">>), One>> >>, TRUE)>> >>, TRUE),
    ArrayText(<<One, ArrayText(<<One, One>>, TRUE)>>, TRUE),
    ObjectText(<< <<Lit(<<"a", ".">>),
                    ArrayText(<<ObjectText(<< <<Lit(<<"b">>), One>> >>, TRUE)>>, TRUE)>> >>,
               TRUE),
    ObjectText(<< <<Lit(<<"a">>), ObjectText(<< <<Lit(<<"a">>), One>> >>, TRUE)>> >>, TRUE) }

Pretty(parsed) == JsonStringify(parsed.val, <<" ", " ">>)

\* The same documents as JSON.stringify writes them with an indent of two
\* spaces, and the empty text.
LocatorTexts ==
  LocatorDocs \cup {Pretty(JsonParse(d)) : d \in LocatorDocs} \cup {<<>>}

LocatorInit ==
  /\ lPath \in Paths
  /\ lText \in LocatorTexts
  /\ lOp = "none"
  /\ lOut = <<>>

LocatorParked ==
  /\ lPath = <<>>
  /\ lText = <<>>
  /\ lOp = "none"
  /\ lOut = <<>>

otherThanLocator == <<fmtVars, workerVars, validatorVars, filterVars, storeVars, uiVars, templateVars>>

FormatPathCall ==
  /\ lOp' = "formatPath"
  /\ lOut' = formatPath(lPath)
  /\ UNCHANGED <<lPath, lText>>
  /\ UNCHANGED otherThanLocator

\* The marker loop of TextEditor: findPathLine(content, error.path).
FindPathLineCall ==
  /\ lOp' = "findPathLine"
  /\ lOut' = findPathLine(lText, lPath)
  /\ UNCHANGED <<lPath, lText>>
  /\ UNCHANGED otherThanLocator

\* ------------------------------------------------------------------------
\* Filter tab of the transform dialog (FilterTab)
\* ------------------------------------------------------------------------

\* The most conditions the user enters.
MaxConditions == 2

Condition(field, operator, value) == [field |-> field, operator |-> operator, value |-> value]

\* The property of an object, or undefined.
Undefined == [t |-> "undefined", n |-> 0, s |-> <<>>, items |-> <<>>]

GetField(item, field) ==
  IF item.t = "obj" /\ \E i \in 1..Len(item.items) : item.items[i].k = field
  THEN item.items[CHOOSE i \in 1..Len(item.items) : item.items[i].k = field].v
  ELSE Undefined

\* filterArray of src/lib/json/query.ts, which is not part of the sources,
\* by spec section 4.6: equals compares a number or a string with the text
\* of the condition, isEmpty holds of a missing, null or empty value.
Matches(fieldValue, condition) ==
  IF condition.operator = "equals" THEN
    \/ fieldValue.t = "num" /\ NumberToString(fieldValue.n) = condition.value
    \/ fieldValue.t = "str" /\ fieldValue.s = condition.value
  ELSE IF condition.operator = "isEmpty" THEN
    \/ fieldValue.t \in {"undefined", "null"}
    \/ fieldValue.t \in {"str", "arr", "obj"} /\ fieldValue.s = <<>> /\ fieldValue.items = <<>>
  ELSE FALSE

ItemPasses(item, conds, combine) ==
  IF combine = "and"
  THEN \A i \in 1..Len(conds) : Matches(GetField(item, conds[i].field), conds[i])
  ELSE \E i \in 1..Len(conds) : Matches(GetField(item, conds[i].field), conds[i])

RECURSIVE KeepPassing(_, _, _)
KeepPassing(array, conds, combine) ==
  IF array = <<>> THEN <<>>
  ELSE (IF ItemPasses(Head(array), conds, combine) THEN <<Head(array)>> ELSE <<>>)
       \o KeepPassing(Tail(array), conds, combine)

filterArray(array, conds, combine) ==
  IF conds = <<>> THEN array ELSE KeepPassing(array, conds, combine)

\* The test of a condition that takes every condition as complete.
IsCompleteAlways(c) == TRUE

\* c.field && (c.operator === 'isEmpty' || c.operator === 'isNotEmpty'
\* || c.value !== '')
IsComplete(c) ==
  c.field # <<>> /\ (c.operator \in {"isEmpty", "isNotEmpty"} \/ c.value # <<>>)

\* conditions.filter(...)
RECURSIVE ValidConditions(_)
ValidConditions(conds) ==
  IF conds = <<>> THEN <<>>
  ELSE (IF IsComplete(Head(conds)) THEN <<Head(conds)>> ELSE <<>>)
       \o ValidConditions(Tail(conds))

\* !parsedContent: null, 0, false and the empty string.
Falsy(value) ==
  \/ value.t \in {"null", "false"}
  \/ value.t = "num" /\ value.n = 0
  \/ value.t = "str" /\ value.s = <<>>

NoPreview == [null |-> TRUE, items |-> <<>>]
PreviewOf(array) == [null |-> FALSE, items |-> array]

PreviewWith(content, validConditions, combine) ==
  IF validConditions = <<>> THEN PreviewOf(content.items)
  ELSE PreviewOf(filterArray(content.items, validConditions, combine))

\* The preview of FilterTab: the memo over parsedContent, isArray,
\* conditions and logic.
preview(content, conds, combine) ==
  IF Falsy(content) \/ content.t # "arr" THEN NoPreview
  ELSE PreviewWith(content, ValidConditions(conds), combine)

\* fieldNames of TransformModal: the keys of the first item of an array of
\* objects.
fieldNames(content) ==
  IF content.t = "arr" /\ content.items # <<>> /\ content.items[1].t = "obj"
  THEN [i \in 1..Len(content.items[1].items) |-> content.items[1].items[i].k]
  ELSE <<>>

\* fieldNames[0] ?? ''
FirstField(names) == IF names = <<>> THEN <<>> ELSE names[1]

NewCondition(content) == Condition(FirstField(fieldNames(content)), "equals", <<>>)

\* The adjustment made while rendering: a single condition with no field
\* gets the first field name.
Adjusted(conds, content) ==
  IF fieldNames(content) # <<>> /\ Len(conds) = 1 /\ conds[1].field = <<>>
     /\ fieldNames(content)[1] # <<>>
  THEN <<NewCondition(content)>>
  ELSE conds

FilterItem(key, value) == JObj(<< [k |-> key, v |-> value] >>)

\* The documents the dialog is opened on: no value, an object, and arrays.
FilterContents ==
  { JNull,
    FilterItem(<<"a">>, JNum(1)),
    JArr(<<>>),
    JArr(<<JNum(1), JNum(2)>>),
    JArr(<<FilterItem(<<"a">>, JNum(1)), FilterItem(<<"a">>, JNum(2))>>),
    JArr(<<FilterItem(<<"a">>, JStr(<<>>)), FilterItem(<<"b">>, JNum(1))>>) }

FilterFields == {<<>>, <<"a">>, <<"b">>}
FilterOperators == {"equals", "isEmpty"}
FilterValues == {<<>>, <<"1">>}

FilterInit ==
  /\ parsedContent \in FilterContents
  /\ conditions = <<NewCondition(parsedContent)>>
  /\ logic = "and"

FilterParked ==
  /\ parsedContent = JNull
  /\ conditions = <<>>
  /\ logic = "and"

otherThanFilter == <<fmtVars, workerVars, validatorVars, locatorVars, storeVars, uiVars, templateVars>>

SetConditions(conds) ==
  /\ conditions' = Adjusted(conds, parsedContent)
  /\ UNCHANGED <<parsedContent, logic>>
  /\ UNCHANGED otherThanFilter

addCondition ==
  /\ Len(conditions) < MaxConditions
  /\ SetConditions(Append(conditions, NewCondition(parsedContent)))

removeCondition ==
  \E index \in 1..Len(conditions) :
    SetConditions([i \in 1..(Len(conditions) - 1) |->
                     IF i < index THEN conditions[i] ELSE conditions[i + 1]])

updateCondition ==
  \E index \in 1..Len(conditions) :
    \/ \E field \in FilterFields :
         SetConditions([conditions EXCEPT ![index].field = field])
    \/ \E operator \in FilterOperators :
         SetConditions([conditions EXCEPT ![index].operator = operator])
    \/ \E value \in FilterValues :
         SetConditions([conditions EXCEPT ![index].value = value])

SetLogic ==
  /\ \E combine \in {"and", "or"} : logic' = combine
  /\ UNCHANGED <<parsedContent, conditions>>
  /\ UNCHANGED otherThanFilter

\* ------------------------------------------------------------------------
\* The document store (store/documentStore.tsx) and its persistence
\* ------------------------------------------------------------------------

\* The most ids generateId hands out.
MaxIds == 3

\* null where an id or an index is expected.
NoId == 0
NoIndex == 0 - 1

\* null where a session is expected.
NoSession == [null |-> TRUE, activeDocumentId |-> NoId, tabOrder |-> <<>>]
Session(activeId, order) == [null |-> FALSE, activeDocumentId |-> activeId, tabOrder |-> order]

\* generateId: an id no document has been given.
generateId == nextId

\* A Document, of which the model follows the id, the name and the content.
createDocument(id, name, content) == [id |-> id, name |-> name, content |-> content]

NoDocuments == [id \in {} |-> createDocument(id, "", "")]

\* Map.set and Map.delete.
MapSet(map, id, value) == [k \in DOMAIN map \cup {id} |-> IF k = id THEN value ELSE map[k]]
MapDelete(map, id) == [k \in DOMAIN map \ {id} |-> map[k]]

\* Array.prototype.includes, indexOf (from zero, -1 when absent) and at.
ListIncludes(list, x) == \E i \in 1..Len(list) : list[i] = x
ListIndexOf(list, x) ==
  IF ListIncludes(list, x)
  THEN (CHOOSE i \in 1..Len(list) : list[i] = x /\ \A j \in 1..(i - 1) : list[j] # x) - 1
  ELSE 0 - 1
ListAt(list, index) ==
  IF index >= 0 /\ index < Len(list) THEN list[index + 1] ELSE NoId

\* Array.prototype.splice: the start it works from.
SpliceStart(list, start) ==
  IF start < 0 THEN (IF Len(list) + start < 0 THEN 0 ELSE Len(list) + start)
  ELSE Min(start, Len(list))

\* list after list.splice(start, 1), and what the call returns.
SpliceOut(list, start) ==
  LET at == SpliceStart(list, start)
  IN IF at < Len(list)
     THEN [rest |-> SubSeq(list, 1, at) \o SubSeq(list, at + 2, Len(list)),
           moved |-> <<list[at + 1]>>]
     ELSE [rest |-> list, moved |-> <<>>]

\* list after list.splice(start, 0, item).
SpliceIn(list, start, item) ==
  LET at == SpliceStart(list, start)
  IN SubSeq(list, 1, at) \o <<item>> \o SubSeq(list, at + 1, Len(list))

\* The reducer.
SetState(docs, activeId, order) ==
  /\ documents' = docs
  /\ activeDocumentId' = activeId
  /\ tabOrder' = order
  /\ restored' = (restored /\ <<docs, activeId, order>> = <<documents, activeDocumentId, tabOrder>>)

CREATE_DOCUMENT(id, name, content) ==
  SetState(MapSet(documents, id, createDocument(id, name, content)),
           id, Append(tabOrder, id))

NextActive(id, newTabOrder) ==
  IF activeDocumentId = id
  THEN ListAt(newTabOrder, Min(ListIndexOf(tabOrder, id), Len(newTabOrder) - 1))
  ELSE activeDocumentId

CLOSE_DOCUMENT(id) ==
  LET newTabOrder == SelectSeq(tabOrder, LAMBDA tabId : tabId # id)
  IN SetState(MapDelete(documents, id), NextActive(id, newTabOrder), newTabOrder)

SET_ACTIVE(id) ==
  SetState(documents, IF id \in DOMAIN documents THEN id ELSE activeDocumentId,
           tabOrder)

\* The cases that write one document of the Map and nothing else.
SetDocument(id, changed) ==
  SetState(IF id \in DOMAIN documents THEN MapSet(documents, id, changed) ELSE documents,
           activeDocumentId, tabOrder)

UPDATE_CONTENT(id, content) ==
  SetDocument(id, [documents[id] EXCEPT !.content = content])

RENAME_DOCUMENT(id, name) ==
  SetDocument(id, [documents[id] EXCEPT !.name = name])

\* MARK_SAVED writes isDirty and savedAt, and no other field.
MARK_SAVED(id) ==
  SetDocument(id, documents[id])

\* The tabs with the one at fromIndex put at toIndex: what splice has taken
\* out, if anything, is put back.
Reordered(taken, toIndex) ==
  IF taken.moved # <<>> THEN SpliceIn(taken.rest, toIndex, taken.moved[1]) ELSE taken.rest

REORDER_TABS(fromIndex, toIndex) ==
  SetState(documents, activeDocumentId,
           Reordered(SpliceOut(tabOrder, fromIndex), toIndex))

RESTORE_SESSION(docs, activeId, order) ==
  /\ documents' = [id \in {docs[i].id : i \in 1..Len(docs)} |->
                     LET last == CHOOSE i \in 1..Len(docs) :
                                   docs[i].id = id /\ \A j \in (i + 1)..Len(docs) : docs[j].id # id
                     IN docs[last]]
  /\ activeDocumentId' = activeId
  /\ tabOrder' = order
  /\ restored' = TRUE

\* The names and contents of the documents the user opens and writes.
DocumentNames == {"example.json"}
DocumentContents == {"{}"}

StoreUnchanged == UNCHANGED <<documents, activeDocumentId, tabOrder, restored>>

\* What the user does outside a drag: while a tab is dragged the browser
\* delivers no other input, and leaves the timers and promises running.
NotDragging ==
  /\ draggedIndex = NoIndex
  /\ UNCHANGED draggedIndex
PersistenceUnchanged ==
  UNCHANGED <<isInitialized, previousDocIds, storedDocs, storedSession>>

\* usePersistence: the effect that runs when the new state is rendered. It
\* deletes the stored documents that are no longer open, which IndexedDB may
\* fail to do, and schedules the save.
Deleted(stored, deletedIds) == [id \in DOMAIN stored \ deletedIds |-> stored[id]]

Synced(docs) ==
  /\ IF isInitialized
     THEN /\ \E done \in (IF previousDocIds \subseteq DOMAIN docs THEN {TRUE} ELSE BOOLEAN) :
               storedDocs' = IF done THEN Deleted(storedDocs, previousDocIds \ DOMAIN docs)
                             ELSE storedDocs
          /\ previousDocIds' = DOMAIN docs
     ELSE UNCHANGED <<storedDocs, previousDocIds>>
  /\ UNCHANGED <<isInitialized, storedSession>>

otherThanStore == <<fmtVars, workerVars, validatorVars, locatorVars, filterVars, uiVars,
                    templateVars>>

\* The actions of useDocumentActions (documentContext.ts), called on a tab or
\* on the active document.
CreateDocument ==
  /\ nextId <= MaxIds
  /\ \E name \in DocumentNames, content \in DocumentContents :
       CREATE_DOCUMENT(generateId, name, content)
  /\ nextId' = nextId + 1
  /\ Synced(documents')
  /\ NotDragging
  /\ UNCHANGED otherThanStore

\* An action that takes an id; a callback made before the last render may
\* still name a document that has been closed since.
OnDocument(Action(_)) ==
  /\ \E id \in 1..(nextId - 1) : Action(id)
  /\ UNCHANGED nextId
  /\ Synced(documents')
  /\ NotDragging
  /\ UNCHANGED otherThanStore

CloseDocument == OnDocument(CLOSE_DOCUMENT)

SetActive == OnDocument(SET_ACTIVE)

UpdateContentOf(id) == \E content \in DocumentContents : UPDATE_CONTENT(id, content)
UpdateContent == OnDocument(UpdateContentOf)

RenameTo(id) == \E name \in DocumentNames : RENAME_DOCUMENT(id, name)
RenameDocument == OnDocument(RenameTo)

MarkSaved == OnDocument(MARK_SAVED)

\* Dragging a tab (useDragAndDrop).
DragStart ==
  /\ draggedIndex = NoIndex
  /\ \E index \in 0..(Len(tabOrder) - 1) : draggedIndex' = index
  /\ StoreUnchanged /\ PersistenceUnchanged
  /\ UNCHANGED nextId
  /\ UNCHANGED otherThanStore

DragEnd ==
  /\ draggedIndex # NoIndex
  /\ draggedIndex' = NoIndex
  /\ StoreUnchanged /\ PersistenceUnchanged
  /\ UNCHANGED nextId
  /\ UNCHANGED otherThanStore

handleDrop(dropIndex) ==
  /\ IF draggedIndex # NoIndex /\ draggedIndex # dropIndex
     THEN REORDER_TABS(draggedIndex, dropIndex)
     ELSE StoreUnchanged
  /\ draggedIndex' = NoIndex

Drop ==
  /\ \E dropIndex \in 0..(Len(tabOrder) - 1) : handleDrop(dropIndex)
  /\ Synced(documents')
  /\ UNCHANGED nextId
  /\ UNCHANGED otherThanStore

\* usePersistence: the restore on mount.
ListOfIds(docs) == [i \in 1..Len(docs) |-> docs[i].id]
SomeHasId(docs, id) == \E i \in 1..Len(docs) : docs[i].id = id

\* The tab order as it was saved, with no check of its ids.
ExistingOnlyUnchecked(savedTabOrder, savedDocs) == savedTabOrder

\* The ids of the saved tab order that a saved document has.
ExistingOnly(savedTabOrder, savedDocs) ==
  SelectSeq(savedTabOrder, LAMBDA id : SomeHasId(savedDocs, id))

\* The loop that pushes the id of every document the order does not include.
RECURSIVE AddMissing(_, _, _)
AddMissing(validTabOrder, savedDocs, i) ==
  IF i > Len(savedDocs) THEN validTabOrder
  ELSE AddMissing(IF ListIncludes(validTabOrder, savedDocs[i].id)
                  THEN validTabOrder
                  ELSE Append(validTabOrder, savedDocs[i].id),
                  savedDocs, i + 1)

ValidTabOrder(savedDocs, session) ==
  AddMissing(ExistingOnly(IF session.null THEN ListOfIds(savedDocs) ELSE session.tabOrder,
                          savedDocs),
             savedDocs, 1)

\* The active id as it was saved, with no check that its document is stored.
ValidActiveIdUnchecked(savedDocs, session, validTabOrder) ==
  IF session.null \/ session.activeDocumentId = NoId
  THEN savedDocs[1].id
  ELSE session.activeDocumentId

ValidActiveId(savedDocs, session, validTabOrder) ==
  LET savedActiveId == IF session.null \/ session.activeDocumentId = NoId
                       THEN savedDocs[1].id
                       ELSE session.activeDocumentId
  IN IF SomeHasId(savedDocs, savedActiveId) THEN savedActiveId ELSE ListAt(validTabOrder, 0)

RestoreWith(savedDocs, session, validTabOrder) ==
  /\ RESTORE_SESSION(savedDocs, ValidActiveId(savedDocs, session, validTabOrder), validTabOrder)
  /\ previousDocIds' = {savedDocs[i].id : i \in 1..Len(savedDocs)}

\* loadAllDocuments: the stored documents, in an order the store chooses.
LoadedLists(stored) ==
  { docs \in [1..Cardinality(DOMAIN stored) -> {stored[id] : id \in DOMAIN stored}] :
      \A i, j \in DOMAIN docs : i # j => docs[i] # docs[j] }

Restore ==
  /\ ~isInitialized
  /\ IF DOMAIN storedDocs # {}
     THEN \E savedDocs \in LoadedLists(storedDocs) :
            RestoreWith(savedDocs, storedSession, ValidTabOrder(savedDocs, storedSession))
     ELSE StoreUnchanged /\ UNCHANGED previousDocIds
  /\ isInitialized' = TRUE
  /\ UNCHANGED <<storedDocs, storedSession, nextId, draggedIndex>>
  /\ UNCHANGED otherThanStore

\* The save the effect has scheduled, run when the 500 ms have passed. Either
\* of its two writes may fail.
Saved(stored, docs) ==
  [id \in DOMAIN stored \cup DOMAIN docs |-> IF id \in DOMAIN docs THEN docs[id] ELSE stored[id]]

DebouncedSave ==
  /\ isInitialized
  /\ \E docsDone, sessionDone \in BOOLEAN :
       /\ docsDone \/ sessionDone
       /\ storedDocs' = IF docsDone THEN Saved(storedDocs, documents) ELSE storedDocs
       /\ storedSession' = IF sessionDone THEN Session(activeDocumentId, tabOrder)
                           ELSE storedSession
  /\ <<storedDocs', storedSession'>> # <<storedDocs, storedSession>>
  /\ StoreUnchanged
  /\ UNCHANGED <<isInitialized, previousDocIds, nextId, draggedIndex>>
  /\ UNCHANGED otherThanStore

\* createInitialState and the first render of DocumentProvider, when the page
\* is opened again: IndexedDB is all that is kept.
InitialState(id) ==
  /\ documents = MapSet(NoDocuments, id, createDocument(id, "example.json", "{}"))
  /\ activeDocumentId = id
  /\ tabOrder = <<id>>

Mount ==
  /\ nextId <= MaxIds
  /\ draggedIndex = NoIndex
  /\ SetState(MapSet(NoDocuments, generateId, createDocument(generateId, "example.json", "{}")),
              generateId, <<generateId>>)
  /\ nextId' = nextId + 1
  /\ draggedIndex' = NoIndex
  /\ isInitialized' = FALSE
  /\ previousDocIds' = {}
  /\ UNCHANGED <<storedDocs, storedSession>>
  /\ UNCHANGED otherThanStore

StoreInit ==
  /\ InitialState(1)
  /\ restored = FALSE
  /\ draggedIndex = NoIndex
  /\ isInitialized = FALSE
  /\ previousDocIds = {}
  /\ storedDocs = NoDocuments
  /\ storedSession = NoSession
  /\ nextId = 2

StoreParked ==
  /\ documents = NoDocuments
  /\ activeDocumentId = NoId
  /\ tabOrder = <<>>
  /\ restored = FALSE
  /\ draggedIndex = NoIndex
  /\ isInitialized = FALSE
  /\ previousDocIds = {}
  /\ storedDocs = NoDocuments
  /\ storedSession = NoSession
  /\ nextId = 1

\* ------------------------------------------------------------------------
\* Editor events (store/editorStore.tsx, TextEditor.tsx)
\* ------------------------------------------------------------------------

\* The most events that are raised.
MaxEvents == 2

\* The panels of the editor area; each shows a TextEditor of the active
\* document when it has one to show.
Panels == {"left", "right"}

\* pendingEvent: null, or the object a call has made. Two calls make two
\* objects, which the dependencies of an effect tell apart.
NoEvent == [type |-> "null", line |-> 0, object |-> 0]
EditorEvent(type, line, object) == [type |-> type, line |-> line, object |-> object]

\* The dependencies of the effect of TextEditor that handles the events; an
\* effect that has not run has none.
NoDeps == [ran |-> FALSE, event |-> NoEvent, jsonError |-> FALSE]
Deps(event, error) == [ran |-> TRUE, event |-> event, jsonError |-> error]

\* setState of EditorProvider, and of any other state the editors render:
\* React renders and runs the effects before it takes another input.
SetPending(event) ==
  /\ pendingEvent' = event
  /\ rendered' = FALSE

EditorInit ==
  /\ pendingEvent = NoEvent
  /\ panelLayout = "single"
  /\ rightPanelDocId = FALSE
  /\ jsonError = FALSE
  /\ textEditors = [p \in Panels |-> "none"]
  /\ effectDeps = [p \in Panels |-> NoDeps]
  /\ rendered = FALSE
  /\ raised = 0
  /\ handled = 0

EditorParked ==
  /\ pendingEvent = NoEvent
  /\ panelLayout = "single"
  /\ rightPanelDocId = FALSE
  /\ jsonError = FALSE
  /\ textEditors = [p \in Panels |-> "none"]
  /\ effectDeps = [p \in Panels |-> NoDeps]
  /\ rendered = TRUE
  /\ raised = 0
  /\ handled = 0

otherThanEditor ==
  <<fmtVars, workerVars, validatorVars, locatorVars, filterVars, storeVars, templateVars,
    toastVars, searchVars>>

\* A call of goToLine, goToError or focusEditor.
Raise(type, line) ==
  /\ rendered
  /\ raised < MaxEvents
  /\ raised' = raised + 1
  /\ handled' = 0
  /\ SetPending(EditorEvent(type, line, raised + 1))
  /\ UNCHANGED <<panelLayout, rightPanelDocId, jsonError, textEditors, effectDeps>>
  /\ UNCHANGED otherThanEditor

goToLine == \E line \in 1..2 : Raise("goToLine", line)

goToError == Raise("goToError", 0)

focusEditor == Raise("focusEditor", 0)

\* The panels that render a TextEditor.
Shown(layout, rightDoc) ==
  IF layout = "split" /\ rightDoc THEN {"left", "right"} ELSE {"left"}

\* The effect of a TextEditor runs after a render when it has not run in this
\* editor or a dependency has changed.
EffectRuns(p) ==
  /\ p \in Shown(panelLayout, rightPanelDocId)
  /\ (textEditors[p] = "none" \/ effectDeps[p] # Deps(pendingEvent, jsonError))

\* The effect handles the event and calls clearEvent: the editor is mounted,
\* and an error event has an error to go to.
Handles(p) ==
  /\ EffectRuns(p)
  /\ pendingEvent # NoEvent
  /\ textEditors[p] = "ready"
  /\ \/ pendingEvent.type = "goToError" /\ jsonError
     \/ pendingEvent.type = "goToLine"
     \/ pendingEvent.type = "focusEditor"

\* React renders the state and runs the effects of the editors it shows.
Commit ==
  /\ ~rendered
  /\ textEditors' = [p \in Panels |->
                       IF p \notin Shown(panelLayout, rightPanelDocId) THEN "none"
                       ELSE IF textEditors[p] = "none" THEN "loading"
                       ELSE textEditors[p]]
  /\ effectDeps' = [p \in Panels |->
                      IF p \notin Shown(panelLayout, rightPanelDocId) THEN NoDeps
                      ELSE Deps(pendingEvent, jsonError)]
  /\ handled' = handled + Cardinality({p \in Panels : Handles(p)})
  /\ IF \E p \in Panels : Handles(p)
     THEN SetPending(NoEvent)
     ELSE pendingEvent' = pendingEvent /\ rendered' = TRUE
  /\ UNCHANGED <<panelLayout, rightPanelDocId, jsonError, raised>>
  /\ UNCHANGED otherThanEditor

\* handleEditorDidMount: Monaco has loaded in a TextEditor; setIsEditorReady
\* makes it render again.
handleEditorDidMount ==
  /\ rendered
  /\ \E p \in Panels :
       /\ textEditors[p] = "loading"
       /\ textEditors' = [textEditors EXCEPT ![p] = "ready"]
  /\ rendered' = FALSE
  /\ UNCHANGED <<pendingEvent, panelLayout, rightPanelDocId, jsonError, effectDeps,
                 raised, handled>>
  /\ UNCHANGED otherThanEditor

\* The user writes in the document: its text stops or starts to parse.
EditContent ==
  /\ rendered
  /\ jsonError' = ~jsonError
  /\ rendered' = FALSE
  /\ UNCHANGED <<pendingEvent, panelLayout, rightPanelDocId, textEditors, effectDeps,
                 raised, handled>>
  /\ UNCHANGED otherThanEditor

toggleSplitView ==
  /\ rendered
  /\ panelLayout' = IF panelLayout = "single" THEN "split" ELSE "single"
  /\ rendered' = FALSE
  /\ UNCHANGED <<pendingEvent, rightPanelDocId, jsonError, textEditors, effectDeps,
                 raised, handled>>
  /\ UNCHANGED otherThanEditor

setRightPanelDoc ==
  /\ rendered
  /\ rightPanelDocId' = ~rightPanelDocId
  /\ rendered' = FALSE
  /\ UNCHANGED <<pendingEvent, panelLayout, jsonError, textEditors, effectDeps,
                 raised, handled>>
  /\ UNCHANGED otherThanEditor

\* ------------------------------------------------------------------------
\* Toasts (src/store/toastStore.tsx)
\* ------------------------------------------------------------------------

MAX_TOASTS == 5

DEFAULT_DURATION == 5000

\* The most toasts that are made.
MaxToastsMade == 7

\* The durations asked for: none, which is the default, and 0 for a toast
\* that stays.
NoDuration == 0 - 1
Durations == {NoDuration, 0}

\* createToast(options): duration: options.duration ?? DEFAULT_DURATION. The
\* id stands for the string of generateId, a new one at every call.
createToast(id, duration) ==
  [id |-> id, duration |-> IF duration = NoDuration THEN DEFAULT_DURATION ELSE duration]

\* The capacity test that lets one toast more in.
AtCapacityOver(prev) == Len(prev) > MAX_TOASTS

\* prev.length >= MAX_TOASTS
AtCapacity(prev) == Len(prev) >= MAX_TOASTS

\* prev.length >= MAX_TOASTS ? prev.slice(1) : prev
Room(prev) == IF AtCapacity(prev) THEN Tail(prev) ELSE prev

\* The updater of addToast: [...newToasts, toast]
Added(prev, toast) == Append(Room(prev), toast)

\* prev.filter((toast) => toast.id !== id)
WithoutToast(prev, id) == SelectSeq(prev, LAMBDA toast : toast.id # id)

ToastIds(list) == {list[i].id : i \in 1..Len(list)}

ToastsInit ==
  /\ toasts = <<>>
  /\ timers = {}
  /\ toastsMade = 0
  /\ dropped = 0

ToastsParked == ToastsInit

otherThanToasts ==
  <<fmtVars, workerVars, validatorVars, locatorVars, filterVars, storeVars, templateVars,
    editorVars, searchVars>>

\* addToast(options): the toast is appended, the oldest dropped at capacity,
\* and a timer is set when the duration is positive.
AddWith(toast) ==
  /\ toasts' = Added(toasts, toast)
  /\ dropped' = IF AtCapacity(toasts) THEN Head(toasts).id ELSE 0
  /\ timers' = IF toast.duration > 0 THEN timers \cup {toast.id} ELSE timers

addToast ==
  /\ toastsMade < MaxToastsMade
  /\ \E duration \in Durations : AddWith(createToast(toastsMade + 1, duration))
  /\ toastsMade' = toastsMade + 1
  /\ UNCHANGED otherThanToasts

\* removeToast(id), from the button of a toast that is displayed.
removeToast ==
  /\ \E id \in ToastIds(toasts) : toasts' = WithoutToast(toasts, id)
  /\ UNCHANGED <<timers, toastsMade, dropped>>
  /\ UNCHANGED otherThanToasts

\* The timer of a toast fires: removeToast(toast.id).
AutoDismiss ==
  /\ \E id \in timers :
       /\ toasts' = WithoutToast(toasts, id)
       /\ timers' = timers \ {id}
  /\ UNCHANGED <<toastsMade, dropped>>
  /\ UNCHANGED otherThanToasts

\* clearToasts(): the timers stay set.
clearToasts ==
  /\ toasts' = <<>>
  /\ UNCHANGED <<timers, toastsMade, dropped>>
  /\ UNCHANGED otherThanToasts

\* ------------------------------------------------------------------------
\* Search (src/lib/search.ts, SearchBar.tsx)
\* ------------------------------------------------------------------------

\* The longest content searched.
MaxContent == 3

SearchChars == {"a", "A", "*", NL}

Contents == UNION {[1..n -> SearchChars] : n \in 0..MaxContent}

\* The texts typed into the search field: a letter, a starred and an
\* optional letter, the end anchor, a dot, two letters, and a bracket that
\* is no regular expression.
SearchTexts ==
  { <<"a">>, <<"a", "*">>, <<"a", "?">>, <<"$">>, <<".">>, <<"a", "A">>, <<"(">> }

\* new RegExp(searchText, flags) for these texts, and for the escaped text
\* of a literal search; the bracket makes the constructor throw.
RegExpOf(text, isRegex) ==
  IF ~isRegex THEN [kind |-> "literal", text |-> text]
  ELSE IF text = <<"(">> THEN [kind |-> "invalid", text |-> text]
  ELSE IF text = <<"$">> THEN [kind |-> "end", text |-> <<>>]
  ELSE IF text = <<".">> THEN [kind |-> "dot", text |-> <<>>]
  ELSE IF Len(text) = 2 /\ text[2] = "*" THEN [kind |-> "star", text |-> <<text[1]>>]
  ELSE IF Len(text) = 2 /\ text[2] = "?" THEN [kind |-> "optional", text |-> <<text[1]>>]
  ELSE [kind |-> "literal", text |-> text]

\* Two characters are the same to the expression: the flag i folds a and A.
SameChar(c, d, sensitive) ==
  c = d \/ (~sensitive /\ {c, d} = {"a", "A"})

\* The characters from index i (counted from 0) on that are the character c.
RECURSIVE RunOf(_, _, _, _)
RunOf(content, i, c, sensitive) ==
  IF i < Len(content) /\ SameChar(content[i + 1], c, sensitive)
  THEN 1 + RunOf(content, i + 1, c, sensitive)
  ELSE 0

NoMatch == 0 - 1

\* The length of the match of the expression at index i, or NoMatch.
MatchLength(re, content, i, sensitive) ==
  IF re.kind = "literal" THEN
    IF /\ i + Len(re.text) <= Len(content)
       /\ \A k \in 1..Len(re.text) : SameChar(content[i + k], re.text[k], sensitive)
    THEN Len(re.text) ELSE NoMatch
  ELSE IF re.kind = "star" THEN RunOf(content, i, re.text[1], sensitive)
  ELSE IF re.kind = "optional" THEN
    IF RunOf(content, i, re.text[1], sensitive) > 0 THEN 1 ELSE 0
  ELSE IF re.kind = "end" THEN IF i = Len(content) THEN 0 ELSE NoMatch
  ELSE IF i < Len(content) /\ content[i + 1] # NL THEN 1 ELSE NoMatch

\* The indexes from lastIndex on where the expression matches.
MatchIndexes(re, content, from, sensitive) ==
  {i \in from..Len(content) : MatchLength(re, content, i, sensitive) # NoMatch}

NullMatch == [null |-> TRUE, index |-> 0, length |-> 0]

FirstMatch(re, content, indexes, sensitive) ==
  IF indexes = {} THEN NullMatch
  ELSE [null |-> FALSE, index |-> FirstOf(indexes),
        length |-> MatchLength(re, content, FirstOf(indexes), sensitive)]

\* regex.exec(content) of an expression with the flag g: the first match
\* from lastIndex on, null when there is none or lastIndex is past the end.
Exec(re, content, from, sensitive) ==
  FirstMatch(re, content, MatchIndexes(re, content, from, sensitive), sensitive)

\* The loop that leaves lastIndex where exec has put it.
ZeroLengthStays(index) == index

\* if (match[0].length === 0) regex.lastIndex++
ZeroLengthAdvance(index) == index + 1

\* The SearchMatch of a match: line and column are counted from 1.
SearchMatch(content, match) ==
  [start |-> match.index, end |-> match.index + match.length,
   line |-> LineAt(content, match.index + 1),
   column |-> match.index + 1
              - LastOf({0} \cup {j \in 1..match.index : content[j] = NL})]

SearchInit ==
  /\ sContent \in Contents
  /\ searchText = <<>>
  /\ caseSensitive = FALSE
  /\ useRegex = FALSE
  /\ lastIndex = 0
  /\ sMatches = <<>>
  /\ sPc = "render"

SearchParked ==
  /\ sContent = <<>>
  /\ searchText = <<>>
  /\ caseSensitive = FALSE
  /\ useRegex = FALSE
  /\ lastIndex = 0
  /\ sMatches = <<>>
  /\ sPc = "render"

otherThanSearch ==
  <<fmtVars, workerVars, validatorVars, locatorVars, filterVars, storeVars, templateVars,
    editorVars, toastVars>>

\* The render calls findMatches: no text and an expression that does not
\* compile give no matches, otherwise the loop is entered.
findMatchesCall ==
  /\ sPc = "render"
  /\ sPc' = IF searchText = <<>> \/ RegExpOf(searchText, useRegex).kind = "invalid"
            THEN "done" ELSE "loop"
  /\ lastIndex' = 0
  /\ sMatches' = <<>>
  /\ UNCHANGED <<sContent, searchText, caseSensitive, useRegex>>
  /\ UNCHANGED otherThanSearch

\* A turn of the while loop: the match is pushed.
Pushed(match) ==
  /\ ~match.null
  /\ sMatches' = Append(sMatches, SearchMatch(sContent, match))
  /\ lastIndex' = IF match.length = 0
                  THEN ZeroLengthAdvance(match.index + match.length)
                  ELSE match.index + match.length

ExecMatch ==
  /\ sPc = "loop"
  /\ Pushed(Exec(RegExpOf(searchText, useRegex), sContent, lastIndex, caseSensitive))
  /\ UNCHANGED <<sContent, searchText, caseSensitive, useRegex, sPc>>
  /\ UNCHANGED otherThanSearch

\* exec returns null: the loop ends and the matches are returned.
ExecNull ==
  /\ sPc = "loop"
  /\ Exec(RegExpOf(searchText, useRegex), sContent, lastIndex, caseSensitive).null
  /\ sPc' = "done"
  /\ lastIndex' = 0
  /\ UNCHANGED <<sContent, searchText, caseSensitive, useRegex, sMatches>>
  /\ UNCHANGED otherThanSearch

\* The user types in the search field: the bar renders again.
setSearchText ==
  /\ sPc = "done"
  /\ searchText' \in (SearchTexts \cup {<<>>}) \ {searchText}
  /\ sPc' = "render"
  /\ UNCHANGED <<sContent, caseSensitive, useRegex, lastIndex, sMatches>>
  /\ UNCHANGED otherThanSearch

setCaseSensitive ==
  /\ sPc = "done"
  /\ caseSensitive' = ~caseSensitive
  /\ sPc' = "render"
  /\ UNCHANGED <<sContent, searchText, useRegex, lastIndex, sMatches>>
  /\ UNCHANGED otherThanSearch

setUseRegex ==
  /\ sPc = "done"
  /\ useRegex' = ~useRegex
  /\ sPc' = "render"
  /\ UNCHANGED <<sContent, searchText, caseSensitive, lastIndex, sMatches>>
  /\ UNCHANGED otherThanSearch

\* ------------------------------------------------------------------------
\* extractTemplates and restoreTemplates, called on a text
\* ------------------------------------------------------------------------

\* The most elements of a text the two functions are called on.
MaxSpans == 2

\* A statement around a quoted variable: two patterns match, one in the other.
TemplateNested == <<"{", "%">> \o Lit(TemplateVar) \o <<"%", "}">>

\* The elements of the texts: templates bare, quoted and nested, a number,
\* and a string that reads as the first placeholder does.
SpanElems ==
  { TemplateVar, Lit(TemplateVar), <<"{", "%", "s", "%", "}">>, TemplateNested, One,
    Lit(<<PlaceholderWords[1]>>) }

SpanTexts == {ArrayText(es, FALSE) : es \in TuplesUpTo(SpanElems, MaxSpans)}

\* The index the loop of restoreTemplates starts from, counted from one: the
\* first placeholder registered.
RestoreStartFirst(placeholders) == IF placeholders = <<>> THEN 0 ELSE 1

\* The index the loop of restoreTemplates starts from, counted from one: the
\* last placeholder registered.
RestoreStart(placeholders) == Len(placeholders)

TemplatesInit ==
  /\ tInput \in SpanTexts
  /\ tText = tInput
  /\ tPlaceholders = <<>>
  /\ tIndex = 0
  /\ tOrder = <<>>
  /\ tPc = "input"

TemplatesParked ==
  /\ tInput = <<>>
  /\ tText = <<>>
  /\ tPlaceholders = <<>>
  /\ tIndex = 0
  /\ tOrder = <<>>
  /\ tPc = "input"

otherThanTemplates ==
  <<fmtVars, workerVars, validatorVars, locatorVars, filterVars, storeVars, uiVars>>

Extracted(ex) ==
  /\ tText' = ex.processed
  /\ tPlaceholders' = ex.placeholders

ExtractCall ==
  /\ tPc = "input"
  /\ Extracted(extractTemplates(tInput))
  /\ tPc' = "extracted"
  /\ UNCHANGED <<tInput, tIndex, tOrder>>
  /\ UNCHANGED otherThanTemplates

\* restoreTemplates is called on what extractTemplates returned.
RestoreCall ==
  /\ tPc = "extracted"
  /\ tIndex' = RestoreStart(tPlaceholders)
  /\ tPc' = "restoring"
  /\ UNCHANGED <<tInput, tText, tPlaceholders, tOrder>>
  /\ UNCHANGED otherThanTemplates

\* One turn of the loop of restoreTemplates.
RestoreTurn ==
  /\ tPc = "restoring"
  /\ tIndex >= 1
  /\ tText' = ReplaceAll(tText, 1, tPlaceholders[tIndex].placeholder,
                         tPlaceholders[tIndex].original)
  /\ tOrder' = Append(tOrder, tIndex)
  /\ tIndex' = tIndex - 1
  /\ UNCHANGED <<tInput, tPlaceholders, tPc>>
  /\ UNCHANGED otherThanTemplates

RestoreReturn ==
  /\ tPc = "restoring"
  /\ tIndex < 1
  /\ tPc' = "restored"
  /\ UNCHANGED <<tInput, tText, tPlaceholders, tIndex, tOrder>>
  /\ UNCHANGED otherThanTemplates

\* The interface outside the document store is not in use.
UiParked == EditorParked /\ ToastsParked /\ SearchParked

\* The subsystems other than the interface are not in use.
CoreParked ==
  FormatterParked /\ WorkerParked /\ ValidatorParked /\ LocatorParked /\ FilterParked
  /\ StoreParked

\* ------------------------------------------------------------------------
\* Specifications
\* ------------------------------------------------------------------------

Init ==
  FormatterInit /\ WorkerParked /\ ValidatorParked /\ LocatorParked /\ FilterParked
  /\ StoreParked /\ UiParked /\ TemplatesParked

Next ==
  \/ FormatCall
  \/ FormatReturn
  \/ FormatRetry
  \/ FormatGiveUp
  \/ CompactCall
  \/ SmartFormatCall
  \/ SortKeysCall
  \/ HandleSortKeys

Spec == Init /\ [][Next]_vars

InitWorker ==
  WorkerInit /\ FormatterParked /\ ValidatorParked /\ LocatorParked /\ FilterParked
  /\ StoreParked /\ UiParked /\ TemplatesParked

NextWorker ==
  \/ Render
  \/ CallHook
  \/ Timeout
  \/ WorkerRespond
  \/ Deliver
  \/ WorkerError
  \/ Unmount

SpecWorker == InitWorker /\ [][NextWorker]_vars

\* The timer of a pending entry, set with setTimeout, fires unless it is
\* cleared.
SpecWorkerFair == SpecWorker /\ WF_vars(Timeout)

InitValidator ==
  ValidatorInit /\ FormatterParked /\ WorkerParked /\ LocatorParked /\ FilterParked
  /\ StoreParked /\ UiParked /\ TemplatesParked

NextValidator ==
  \/ ValidateJsonSchemaCall
  \/ IsValidSchemaCall
  \/ ParseAndValidateCall

SpecValidator == InitValidator /\ [][NextValidator]_vars

InitLocator ==
  LocatorInit /\ FormatterParked /\ WorkerParked /\ ValidatorParked /\ FilterParked
  /\ StoreParked /\ UiParked /\ TemplatesParked

NextLocator ==
  \/ FormatPathCall
  \/ FindPathLineCall

SpecLocator == InitLocator /\ [][NextLocator]_vars

InitFilter ==
  FilterInit /\ FormatterParked /\ WorkerParked /\ ValidatorParked /\ LocatorParked
  /\ StoreParked /\ UiParked /\ TemplatesParked

NextFilter ==
  \/ addCondition
  \/ removeCondition
  \/ updateCondition
  \/ SetLogic

SpecFilter == InitFilter /\ [][NextFilter]_vars

InitStore ==
  StoreInit /\ FormatterParked /\ WorkerParked /\ ValidatorParked /\ LocatorParked
  /\ FilterParked /\ UiParked /\ TemplatesParked

NextStore ==
  \/ CreateDocument
  \/ CloseDocument
  \/ SetActive
  \/ UpdateContent
  \/ RenameDocument
  \/ MarkSaved
  \/ DragStart
  \/ DragEnd
  \/ Drop
  \/ Restore
  \/ DebouncedSave
  \/ Mount

SpecStore == InitStore /\ [][NextStore]_vars

InitEditor == EditorInit /\ ToastsParked /\ SearchParked /\ CoreParked /\ TemplatesParked

NextEditor ==
  \/ goToLine
  \/ goToError
  \/ focusEditor
  \/ Commit
  \/ handleEditorDidMount
  \/ EditContent
  \/ toggleSplitView
  \/ setRightPanelDoc

SpecEditor == InitEditor /\ [][NextEditor]_vars

\* React runs the effects of a render, and Monaco loads.
SpecEditorFair == SpecEditor /\ WF_vars(Commit) /\ WF_vars(handleEditorDidMount)

InitTemplates == TemplatesInit /\ CoreParked /\ UiParked

InitToasts == ToastsInit /\ EditorParked /\ SearchParked /\ CoreParked /\ TemplatesParked

NextToasts ==
  \/ addToast
  \/ removeToast
  \/ AutoDismiss
  \/ clearToasts

SpecToasts == InitToasts /\ [][NextToasts]_vars

InitSearch == SearchInit /\ EditorParked /\ ToastsParked /\ CoreParked /\ TemplatesParked

NextSearch ==
  \/ findMatchesCall
  \/ ExecMatch
  \/ ExecNull
  \/ setSearchText
  \/ setCaseSensitive
  \/ setUseRegex

SpecSearch == InitSearch /\ [][NextSearch]_vars

\* A render runs to its end: the call of findMatches is made and every turn
\* of its loop is taken.
SpecSearchFair ==
  SpecSearch /\ WF_vars(findMatchesCall) /\ WF_vars(ExecMatch) /\ WF_vars(ExecNull)

NextTemplates ==
  \/ ExtractCall
  \/ RestoreCall
  \/ RestoreTurn
  \/ RestoreReturn

SpecTemplates == InitTemplates /\ [][NextTemplates]_vars

\* ------------------------------------------------------------------------
\* Properties
\* ------------------------------------------------------------------------

\* Two texts are structurally equal: they parse to the same value, or neither
\* parses and they are the same text.
SameParse(pa, pb, a, b) == IF pa.ok /\ pb.ok THEN pa.val = pb.val ELSE a = b

StructEq(a, b) == SameParse(JsonParse(a), JsonParse(b), a, b)

\* A syntax tree with every repeated key of an object kept where it was first
\* written, with the value written last.
RECURSIVE FirstWritten(_)
FirstWrittenMembers(members) ==
  LET firsts == {i \in 1..Len(members) : \A j \in 1..(i - 1) : members[j].k # members[i].k}
      last(k) == CHOOSE i \in 1..Len(members) :
                   members[i].k = k /\ \A j \in (i + 1)..Len(members) : members[j].k # k
      pick(n) == CHOOSE i \in firsts : Cardinality({j \in firsts : j < i}) = n - 1
  IN [n \in 1..Cardinality(firsts) |->
        [k |-> members[pick(n)].k, v |-> FirstWritten(members[last(members[pick(n)].k)].v)]]

FirstWritten(v) ==
  IF v.t = "arr" THEN JArr([i \in 1..Len(v.items) |-> FirstWritten(v.items[i])])
  ELSE IF v.t = "obj" THEN JObj(FirstWrittenMembers(v.items))
  ELSE v

\* The arrays and objects of a syntax tree with their keys, without the scalars.
RECURSIVE KeysOnly(_)
KeysOnly(v) ==
  IF v.t = "arr" THEN JArr([i \in 1..Len(v.items) |-> KeysOnly(v.items[i])])
  ELSE IF v.t = "obj" THEN
    JObj([i \in 1..Len(v.items) |-> [k |-> v.items[i].k, v |-> KeysOnly(v.items[i].v)]])
  ELSE JNull

\* The position of the quote that closes the string literal whose body starts
\* at i, or 0.
RECURSIVE StringEnd(_, _)
StringEnd(t, i) ==
  IF i > Len(t) THEN 0
  ELSE IF t[i] = QUOTE THEN i
  ELSE IF t[i] = BSLASH THEN StringEnd(t, i + 2)
  ELSE StringEnd(t, i + 1)

\* The string literals of a text, quotes included.
RECURSIVE StringLiterals(_, _)
StringLiterals(t, i) ==
  IF i > Len(t) THEN {}
  ELSE IF t[i] = QUOTE THEN
    LET e == StringEnd(t, i + 1)
    IN IF e = 0 THEN {} ELSE {SubSeq(t, i, e)} \cup StringLiterals(t, e + 1)
  ELSE StringLiterals(t, i + 1)

TemplateStrings(t) == {lit \in StringLiterals(t, 1) : hasTemplateSyntax(lit)}

\* C1: for every valid JSON text t, compact(format(t)) is structurally equal
\* to compact(t).  Stated of the step that compacts the document right after
\* it was opened with t and formatted.
C1_CompactAfterFormat ==
  [][(/\ pc = "idle" /\ lastOp = "format" /\ lastIn = orig /\ IsValidJson(orig)
      /\ lastOp' = "compact")
     => StructEq(out', compactJson(orig, opts).text)]_vars

SameKeyOrder(treeOut, treeIn) ==
  treeOut.ok /\ KeysOnly(treeOut.val) = KeysOnly(FirstWritten(treeIn.val))

\* C2: format, compact and smartFormat never reorder object keys: the keys of
\* every object of the output are in the order they were first written in the
\* input.
C2_KeyOrderPreserved ==
  (/\ pc = "idle" /\ lastOp \in {"format", "compact", "smartFormat"}
   /\ IsValidJson(lastIn))
  => SameKeyOrder(ParseTree(out), ParseTree(lastIn))

\* C3: a string value that contains a template placeholder is in the output
\* of format exactly as it was written in the input.
C3_TemplateStringRoundTrip ==
  (pc = "idle" /\ lastOp = "format" /\ IsValidJson(lastIn))
  => \A lit \in TemplateStrings(lastIn) : Includes(out, lit)

\* The lines of a text.
RECURSIVE SplitLines(_, _, _)
SplitLines(t, i, cur) ==
  IF i > Len(t) THEN {cur}
  ELSE IF t[i] = NL THEN {cur} \cup SplitLines(t, i + 1, <<>>)
  ELSE SplitLines(t, i + 1, Append(cur, t[i]))

Lines(t) == SplitLines(t, 1, <<>>)

\* The position that closes the array or object opened at i - 1 on a line,
\* or 0 when it is not closed on the line; nesting counts the open brackets.
RECURSIVE CompositeEnd(_, _, _)
CompositeEnd(line, i, nesting) ==
  IF i > Len(line) THEN 0
  ELSE IF line[i] = QUOTE THEN
    LET e == StringEnd(line, i + 1)
    IN IF e = 0 THEN 0 ELSE CompositeEnd(line, e + 1, nesting)
  ELSE IF line[i] \in {"[", "{"} THEN CompositeEnd(line, i + 1, nesting + 1)
  ELSE IF line[i] \in {"]", "}"} THEN
    (IF nesting = 1 THEN i ELSE CompositeEnd(line, i + 1, nesting - 1))
  ELSE CompositeEnd(line, i + 1, nesting)

\* The arrays and objects rendered whole on a line, outermost only.
RECURSIVE InlineComposites(_, _)
InlineComposites(line, i) ==
  IF i > Len(line) THEN {}
  ELSE IF line[i] = QUOTE THEN
    LET e == StringEnd(line, i + 1)
    IN IF e = 0 THEN {} ELSE InlineComposites(line, e + 1)
  ELSE IF line[i] \in {"[", "{"} THEN
    LET e == CompositeEnd(line, i + 1, 1)
    IN IF e = 0 THEN InlineComposites(line, i + 1)
       ELSE {SubSeq(line, i, e)} \cup InlineComposites(line, e + 1)
  ELSE InlineComposites(line, i + 1)

\* The primitive tokens of a line: its string literals and its runs of
\* digits, minus sign and letters.
RECURSIVE BareRunEnd(_, _)
BareRunEnd(line, i) ==
  IF i > Len(line) \/ line[i] \in {" ", TAB, ",", ":", "[", "]", "{", "}", QUOTE}
  THEN i - 1 ELSE BareRunEnd(line, i + 1)

RECURSIVE AtomicTokens(_, _)
AtomicTokens(line, i) ==
  IF i > Len(line) THEN {}
  ELSE IF line[i] = QUOTE THEN
    LET e == StringEnd(line, i + 1)
    IN IF e = 0 THEN {From(line, i)}
       ELSE {SubSeq(line, i, e)} \cup AtomicTokens(line, e + 1)
  ELSE IF line[i] \in {" ", TAB, ",", ":", "[", "]", "{", "}"} THEN AtomicTokens(line, i + 1)
  ELSE LET e == BareRunEnd(line, i)
       IN {SubSeq(line, i, e)} \cup AtomicTokens(line, e + 1)

SmartFormatted == pc = "idle" /\ lastOp = "smartFormat" /\ IsValidJson(lastIn)

SameResult(a, b) == a.output = b.output /\ a.value = b.value /\ a.valid = b.valid

\* C5: when the worker is unavailable, a request times out or the worker
\* reports an error, the hook function falls back and returns the same result
\* as the offloaded computation would have produced for the input and options.
C5_FallbackSameAsWorker ==
  \A id \in DOMAIN calls :
    (calls[id].status = "returned" /\ calls[id].path = "fallback")
    => SameResult(calls[id].result, WorkerCompute(job))

\* The response of a request that has timed out is handed to onmessage.
LateDelivery(id) ==
  /\ calls[id].reason = "Worker timeout"
  /\ id \in outbox /\ id \notin outbox' /\ workerRunning'

\* The timer of a request fires.
TimeoutStep(id) ==
  calls[id].reason # "Worker timeout" /\ calls'[id].reason = "Worker timeout"

Malformed(schema) == schema.kind = "object" /\ schema.type \notin JSONTypes

\* C7: validate(value, schema) never throws when the schema is malformed: the
\* compile failure reaches the caller as a value.
C7_ValidateNeverThrows ==
  (vOp \in {"validateJsonSchema", "parseAndValidate"} /\ Malformed(vSchema))
  => ~vOut.threw

\* C8: isValidSchema(candidate) returns false, and does not throw, for every
\* candidate whose compilation fails.
C8_IsValidSchemaFalse ==
  (vOp = "isValidSchema" /\ ~vCompiled) => (~vOut.threw /\ vOut.value = FALSE)

\* isValidSchema has returned false for a schema object that did not compile.
C8_Witness ==
  /\ vOp = "isValidSchema" /\ ~vCompiled /\ vSchema.kind = "object"
  /\ ~vOut.threw /\ vOut.value = FALSE

\* C15: every ValidationError a function of the validator returns has a
\* path that starts with "/", those of the document root too.
C15_PathStartsAtRoot ==
  \A i \in 1..Len(vOut.errors) :
    vOut.errors[i].path # <<>> /\ Head(vOut.errors[i].path) = "/"

\* validateJsonSchema returned the error of a value at the document root.
C15_Witness ==
  /\ vOp = "validateJsonSchema"
  /\ Len(vOut.errors) = 1
  /\ vOut.errors[1].path = <<"/">>
  /\ vInput.data.t # "arr"

\* The characters that separate the parts of a path.
Separators == {".", "/"}

\* C16: the text formatPath returns for a pointer has no two separators
\* next to each other.
C16_NoDoubleSeparators ==
  (lOp = "formatPath" /\ lPath \in Pointers) =>
    \A i \in 1..(Len(lOut) - 1) : ~(lOut[i] \in Separators /\ lOut[i + 1] \in Separators)

\* C17: findPathLine returns null or a line number from 1 to the number of
\* lines of the text.
C17_LineInRangeOrNull ==
  lOp = "findPathLine" =>
    (lOut.null \/ lOut.line \in 1..Len(Split(lText, NL)))

\* findPathLine found the line of an array element below the first line of
\* a text.
C17_Witness ==
  /\ lOp = "findPathLine"
  /\ ~lOut.null
  /\ lOut.line > 1
  /\ lPath \in {PointerOf(<<<<"1">>>>), PointerOf(<<<<"a">>, <<"1">>>>)}

\* No condition the user has entered is complete: each lacks its field, or
\* its value where the operator takes one.
NoValidCondition ==
  \A i \in 1..Len(conditions) :
    \/ conditions[i].field = <<>>
    \/ conditions[i].operator \notin {"isEmpty", "isNotEmpty"} /\ conditions[i].value = <<>>

\* C18: with no valid condition the filter of an array is the array itself,
\* under "and" and under "or".
C18_NoConditionsIdentity ==
  (parsedContent.t = "arr" /\ NoValidCondition)
  => preview(parsedContent, conditions, logic) = PreviewOf(parsedContent.items)

\* Two conditions without a value are combined by "or" over an array of
\* two items.
C18_Witness ==
  /\ parsedContent.t = "arr"
  /\ Len(parsedContent.items) = 2
  /\ Len(conditions) = 2
  /\ NoValidCondition
  /\ logic = "or"
  /\ preview(parsedContent, conditions, logic) = PreviewOf(parsedContent.items)

\* postMessage was called for the call: it waits on the promise, or the
\* promise was resolved or rejected.
Dispatched(id) ==
  id \in DOMAIN calls /\ (calls[id].status = "awaiting" \/ calls[id].settles > 0)

SettledOnce(id) ==
  id \in DOMAIN calls /\ calls[id].status = "returned" /\ calls[id].settles = 1

\* C19: every request given to postMessage is settled in the end, and
\* resolve or reject is called on it once only.
C19_EveryRequestSettlesOnce ==
  /\ [](\A id \in DOMAIN calls : calls[id].settles <= 1)
  /\ \A id \in 1..MaxCalls : Dispatched(id) ~> SettledOnce(id)

\* One request was resolved by its response and another rejected by its
\* timer.
C19_Witness ==
  /\ \E id \in DOMAIN calls : SettledOnce(id) /\ calls[id].path = "worker"
  /\ \E id \in DOMAIN calls : SettledOnce(id) /\ calls[id].reason = "Worker timeout"

\* C9: no formatter operation (format, compact, smartFormat, sortKeys) throws
\* when its input text is not valid JSON; each returns a text to the caller.
C9_NoThrowOnInvalidJson ==
  (pc = "idle" /\ lastOp # "none" /\ ~IsValidJson(lastIn)) => ~threw

\* compact has returned its input, which is not valid JSON, unchanged.
C9_Witness ==
  pc = "idle" /\ lastOp = "compact" /\ ~IsValidJson(lastIn) /\ ~threw /\ out = lastIn

\* C10: a format call runs the repair at most once and retries at most once,
\* the retry with autoRepair disabled: the call is never more than two frames
\* deep, so it terminates.
C10_RepairAtMostOnce ==
  /\ repairCalls <= 1
  /\ depth <= 2
  /\ (pc = "formatJson" /\ depth = 2) => (~callAutoRepair /\ repairCalls = 1)

\* A format call that repaired its input and returned from the retry.
C10_Witness ==
  pc = "idle" /\ lastOp = "format" /\ depth = 2 /\ repairCalls = 1 /\ IsValidJson(out)

\* C11: when the repair made in a format call is the whole input as one JSON
\* string literal, reported without an error, the call returns the text it
\* was given and not the quoted text.
QuotedRepair ==
  /\ pc = "idle"
  /\ lastOp = "format"
  /\ repairCalls = 1
  /\ ~repaired.error
  /\ repaired.output = QuoteString(lastIn)

C11_QuotedRepairReturnsInput ==
  QuotedRepair => (~threw /\ out = lastIn /\ doc = lastIn)

C11_Witness == QuotedRepair /\ out = lastIn /\ out # repaired.output

\* A key sort has run on a text that parses and has written its result.
KeySortOps == {"sortKeys", "sortAscending", "sortDescending"}

KeysSorted ==
  /\ pc = "idle"
  /\ lastOp \in KeySortOps
  /\ IsValidJson(lastIn)
  /\ out # <<>>

\* The keys of every object of a syntax tree are in locale order in the
\* direction.
RECURSIVE InLocaleOrder(_, _)
InLocaleOrder(v, ascending) ==
  /\ v.t = "obj" =>
       \A i \in 1..(Len(v.items) - 1) :
         KeyCompare(v.items[i].k, v.items[i + 1].k, ascending) < 0
  /\ v.t = "arr" => \A i \in 1..Len(v.items) : InLocaleOrder(v.items[i], ascending)
  /\ v.t = "obj" => \A i \in 1..Len(v.items) : InLocaleOrder(v.items[i].v, ascending)

OrderedOutput(tree, ascending) == tree.ok /\ InLocaleOrder(tree.val, ascending)

\* C12: the text a key sort returns has the keys of every object, nested
\* ones included, in locale-aware alphabetical order in the direction asked
\* for (sortJsonKeys takes no direction and is held to the ascending one).
C12_KeysInLocaleOrder ==
  KeysSorted => OrderedOutput(ParseTree(out), lastOp # "sortDescending")

\* C14: a text that parses is never handled as a failed parse, the literal
\* null included: handleSortKeys, which writes nothing for a text that does
\* not parse, writes its result for every text that parses.
C14_NullValueIsValid ==
  (/\ pc = "idle"
   /\ lastOp \in {"sortAscending", "sortDescending"}
   /\ ~parseJson(lastIn).error)
  => (out # <<>> /\ doc = out)

\* A value with every object as the set of its members, so that only the
\* order of array elements is kept, and with every string that holds a
\* template as one mark.
RECURSIVE Unordered(_)
Unordered(v) ==
  IF v.t = "arr" THEN [t |-> "arr", items |-> [i \in 1..Len(v.items) |-> Unordered(v.items[i])]]
  ELSE IF v.t = "obj" THEN
    [t |-> "obj", items |-> {<<v.items[i].k, Unordered(v.items[i].v)>> : i \in 1..Len(v.items)}]
  ELSE IF v.t = "str" /\ hasTemplateSyntax(v.s) THEN [t |-> "template", items |-> <<>>]
  ELSE [t |-> "scalar", items |-> v]

SameArrays(parsedOut, parsedIn) ==
  parsedOut.ok /\ Unordered(parsedOut.val) = Unordered(parsedIn.val)

\* C13: a key sort keeps every array as it is: the output has, at every
\* place of the input that holds an array, an array of the same length with
\* the same element in each position.
C13_ArrayOrderUntouched ==
  KeysSorted => SameArrays(JsonParse(out), JsonParse(lastIn))

\* A key sort has moved the keys of an object that is the first of two
\* different elements of an array.
C13_Witness ==
  /\ KeysSorted
  /\ lastIn = ArrayText(<<UnsortedObject, One>>, FALSE)
  /\ out # lastIn
  /\ JsonParse(out).val.items[2] = JNum(1)

\* The times an id is in the tab order.
TimesIn(order, id) == Cardinality({i \in 1..Len(order) : order[i] = id})

\* C20: after any sequence of actions of the document store, tabOrder holds
\* the id of every open document exactly once and no id that is not the id of
\* an open document.
C20_TabOrderIsTheOpenDocuments ==
  /\ \A id \in DOMAIN documents : TimesIn(tabOrder, id) = 1
  /\ \A i \in 1..Len(tabOrder) : tabOrder[i] \in DOMAIN documents

\* The state is the one RESTORE_SESSION has returned for a session whose
\* saved tab order names a document that is not stored: the stored documents
\* are open and the tabs are not the saved ones.
C20_Witness ==
  /\ restored
  /\ ~storedSession.null
  /\ \E i \in 1..Len(storedSession.tabOrder) : storedSession.tabOrder[i] \notin DOMAIN storedDocs
  /\ DOMAIN documents = DOMAIN storedDocs
  /\ tabOrder # storedSession.tabOrder

\* C21: after any sequence of actions of the document store, activeDocumentId
\* is null or the id of an open document, and it is null only when no
\* document is open; closing the active tab leaves a remaining tab active.
C21_ActiveIsAnOpenDocument ==
  /\ activeDocumentId # NoId => activeDocumentId \in DOMAIN documents
  /\ activeDocumentId = NoId => DOMAIN documents = {}

\* The state is the one RESTORE_SESSION has returned for a session whose
\* saved active id names a document that is not stored: a stored document is
\* active instead.
C21_Witness ==
  /\ restored
  /\ ~storedSession.null
  /\ storedSession.activeDocumentId # NoId
  /\ storedSession.activeDocumentId \notin DOMAIN storedDocs
  /\ DOMAIN documents = DOMAIN storedDocs
  /\ activeDocumentId \in DOMAIN documents

\* C22: every event raised by goToLine, goToError or focusEditor is handled
\* at most once, and the pending event is then cleared: no event stays
\* pending for ever.
C22_EveryEventConsumedOnce ==
  /\ [](handled <= 1)
  /\ (pendingEvent # NoEvent) ~> (pendingEvent = NoEvent)

\* The times a pattern is in a text.
Occurrences(t, pat) == Cardinality({i \in 1..Len(t) : StartsAt(t, i, pat)})

\* C23: every template span is replaced by a placeholder that is unique
\* within the text being processed: no placeholder registered is in the
\* processed text twice, and restoring gives back the text as it was.
C23_PlaceholdersUnique ==
  /\ tPc = "extracted" =>
       \A i \in 1..Len(tPlaceholders) : Occurrences(tText, tPlaceholders[i].placeholder) <= 1
  /\ tPc = "restored" => tText = tInput

\* C25: placeholders are substituted back in reverse registration order: the
\* turns of the restoring loop take the placeholder registered last first and
\* go down to the first, and when the loop ends every placeholder has had
\* its turn.
C25_RestoredInReverseOrder ==
  /\ \A k \in 1..Len(tOrder) : tOrder[k] = Len(tPlaceholders) - k + 1
  /\ tPc = "restored" => Len(tOrder) = Len(tPlaceholders)

\* Two placeholders have been restored, the second of which stood for a
\* template that held the first: the text is the input again.
C25_Witness ==
  /\ tPc = "restored"
  /\ tOrder = <<2, 1>>
  /\ Occurrences(tPlaceholders[2].original, tPlaceholders[1].placeholder) = 1
  /\ tText = tInput

\* The position of the bracket that opens the target array of a path: the
\* array right after the parent key and its colon, or the array the text
\* starts with when the index is the only segment; 0 when there is none.
KeyArrays(t, key) ==
  {i \in 1..Len(t) : /\ AfterKeyColon(t, i, key) > 0
                     /\ StartsAt(t, SkipWs(t, AfterKeyColon(t, i, key)), <<"[">>)}

TargetArrayOpen(t, segments) ==
  IF Len(segments) = 1
  THEN IF StartsAt(t, SkipWs(t, 1), <<"[">>) THEN SkipWs(t, 1) ELSE 0
  ELSE IF KeyArrays(t, segments[Len(segments) - 1]) = {} THEN 0
  ELSE SkipWs(t, AfterKeyColon(t, FirstOf(KeyArrays(t, segments[Len(segments) - 1])),
                               segments[Len(segments) - 1]))

\* The scan of the target array from position p on: nest counts the
\* brackets open from the array's own, expect holds where an element may
\* start, count is the number of elements that have started. The result is
\* the line on which the element with index i starts, or null when the
\* array ends before.
RECURSIVE ElementScan(_, _, _, _, _, _, _)
ElementScan(t, p, nest, inString, expect, count, i) ==
  IF p > Len(t) \/ nest = 0 THEN Null
  ELSE IF inString THEN
    IF t[p] = BSLASH THEN ElementScan(t, p + 2, nest, TRUE, expect, count, i)
    ELSE ElementScan(t, p + 1, nest, t[p] # QUOTE, expect, count, i)
  ELSE IF IsWs(t[p]) THEN ElementScan(t, p + 1, nest, FALSE, expect, count, i)
  ELSE IF nest = 1 /\ expect /\ t[p] # "]" THEN
    IF count = i THEN Line(LineAt(t, p))
    ELSE ElementScan(t, p, nest, FALSE, FALSE, count + 1, i)
  ELSE IF t[p] = QUOTE THEN ElementScan(t, p + 1, nest, TRUE, expect, count, i)
  ELSE IF t[p] \in {"[", "{"} THEN ElementScan(t, p + 1, nest + 1, FALSE, expect, count, i)
  ELSE IF t[p] \in {"]", "}"} THEN ElementScan(t, p + 1, nest - 1, FALSE, expect, count, i)
  ELSE ElementScan(t, p + 1, nest, FALSE, expect \/ (t[p] = "," /\ nest = 1), count, i)

ElementStartLine(t, segments) ==
  IF TargetArrayOpen(t, segments) = 0 THEN Null
  ELSE ElementScan(t, TargetArrayOpen(t, segments) + 1, 1, FALSE, TRUE, 0,
                   DigitsVal(segments[Len(segments)], 0))

\* findPathLine has been called with a path that ends in an array index.
IndexLocated ==
  /\ lOp = "findPathLine"
  /\ Segments(lPath) # <<>>
  /\ AllDigits(Segments(lPath)[Len(Segments(lPath))])

\* C26: for a path whose last segment is an array index i, the target array
\* is the one opened right after the parent key, the elements that start at
\* depth arrayDepth+1 are counted, and the line returned is the line on
\* which the element with index i starts.
C26_ArrayIndexLine ==
  (IndexLocated /\ ~ElementStartLine(lText, Segments(lPath)).null) =>
    lOut = ElementStartLine(lText, Segments(lPath))

\* findPathLine has been called with a path of a parent segment and a key.
KeyLocated ==
  /\ lOp = "findPathLine"
  /\ Len(Segments(lPath)) >= 2
  /\ ~AllDigits(Segments(lPath)[Len(Segments(lPath))])

\* The line is one that starts with the key and its colon, and the key
\* pattern of the parent segment is on a line before it.
KeyLineAfterParent(lines, n, key, parent) ==
  /\ KeyPatternTest(lines[n], key)
  /\ \E j \in 1..(n - 1) : ParentPatternTest(lines[j], parent)

\* C27: for a path whose last segment is an object key and that has a parent
\* segment, a line is returned only if it matches the pattern of the key and
\* the key pattern of the parent segment appeared on an earlier line.
C27_KeyLineAfterParent ==
  (KeyLocated /\ ~lOut.null) =>
    KeyLineAfterParent(Split(lText, NL), lOut.line,
                       Segments(lPath)[Len(Segments(lPath))],
                       Segments(lPath)[Len(Segments(lPath)) - 1])

\* C28: the outcome of isValidSchema and of validateJsonSchema for a schema
\* and a value does not depend on the schemas compiled earlier: it is the
\* outcome of the same call on a compiler that has compiled nothing, whether
\* the call is repeated or follows other schemas or an equal copy of the
\* schema.
C28_OutcomeIndependentOfEarlierSchemas ==
  /\ vOp = "isValidSchema" => vOut = isValidSchema({}, {}, vSchema)
  /\ vOp = "validateJsonSchema" =>
       vOut = validateJsonSchema({}, {}, vInput.data, vSchema)

\* The toasts are in the order in which they were made.
InInsertionOrder(list) == \A i \in 1..(Len(list) - 1) : list[i].id < list[i + 1].id

\* C29: there are never more than MAX_TOASTS toasts, whatever is added,
\* removed, cleared or dismissed by its timer; a toast added at capacity
\* takes the place of the oldest, which is dropped, and the toasts that stay
\* keep the order in which they were added.
C29_ToastsBounded ==
  /\ [](Len(toasts) <= MAX_TOASTS /\ InInsertionOrder(toasts))
  /\ [][(Len(toasts) = MAX_TOASTS /\ toastsMade' # toastsMade) =>
          (/\ dropped' = toasts[1].id
           /\ toasts' = Append(Tail(toasts), toasts'[MAX_TOASTS])
           /\ toasts'[MAX_TOASTS].id = toastsMade')]_vars

\* A toast has been added at capacity: the oldest was dropped and the list
\* is full.
C29_Witness ==
  /\ dropped # 0
  /\ Len(toasts) = MAX_TOASTS
  /\ dropped < toasts[1].id
  /\ toasts[MAX_TOASTS].id = toastsMade

\* C30: findMatches terminates for every content and search pattern, the
\* expressions with matches of length zero included: a call that is made
\* returns, after no more turns of its loop than the content has indexes.
C30_FindMatchesTerminates ==
  /\ [](Len(sMatches) <= Len(sContent) + 1)
  /\ (sPc # "done") ~> (sPc = "done")

\* findMatches has returned from a search with an expression that matched
\* with length zero at two places or more.
C30_Witness ==
  /\ sPc = "done"
  /\ useRegex
  /\ Cardinality({k \in 1..Len(sMatches) : sMatches[k].start = sMatches[k].end}) >= 2

\* A step of the catch block of formatJson with autoRepair on: strict parsing
\* of the placeholder-substituted text has failed.
CatchStep ==
  /\ pc = "formatJson"
  /\ callAutoRepair
  /\ ~FormatTry(callInput, opts).ok
  /\ fmtVars' # fmtVars

\* C24 as stated: when autoRepair is enabled and strict parsing of the
\* placeholder-substituted text fails, the Repair Engine is run on the
\* placeholder-substituted text.
C24_RepairRunsOnSubstitutedText ==
  [][CatchStep =>
       /\ repairCalls' = repairCalls + 1
       /\ repairInput' = ExtractIfEnabled(callInput, opts.preserveTemplates).processed]_vars

\* C24: when autoRepair is enabled and strict parsing of the
\* placeholder-substituted text fails, the Repair Engine is run, and it is
\* run on the input of the call, templates included, not on the
\* placeholder-substituted text.
C24_RepairRunsOnInput ==
  [][CatchStep => (repairCalls' = repairCalls + 1 /\ repairInput' = callInput)]_vars

\* The engine has been run for a call whose input holds templates that the
\* try block had replaced by placeholders.
C24_Witness ==
  /\ repairCalls = 1
  /\ opts.preserveTemplates
  /\ hasTemplateSyntax(repairInput)
  /\ extractTemplates(repairInput).processed # repairInput
====
